---- MODULE Spec2Model ----
(***************************************************************************)
(* Model of the call-QA evaluation orchestrator (app/services/orchestrator *)
(* .py), its fallback manager (app/services/llm_client.py) and the result  *)
(* schemas (app/models/schemas.py).                                        *)
(*                                                                         *)
(* The specifications share the variables:                                 *)
(*   Spec       one evaluate_call invocation, from entry to return/raise   *)
(*   SpecGate   _requires_deep_dive / _calculate_deep_dive_score as pure   *)
(*              functions over bounded inputs                              *)
(*   SpecScore  calculate_overall_score as a pure function over bounded    *)
(*              EvaluationResult inputs                                    *)
(*   SpecSummary generate_summary as a pure function over bounded          *)
(*              EvaluationResult inputs                                    *)
(*   SpecApi    the /evaluate-call and /evaluate-batch routes              *)
(*              (app/api/routes.py) around evaluate_call                   *)
(***************************************************************************)
EXTENDS Integers, Sequences, FiniteSets, TLC

VARIABLES
    pc,                 \* position of evaluate_call
    initialized,        \* CallQAOrchestrator.initialized
    stage1,             \* progress of _classify_call
    classification,     \* local `classification` of evaluate_call (Option)
    status,             \* progress of each gathered Stage-2 coroutine
    branchRet,          \* what each Stage-2 coroutine returned (Option)
    facet,              \* locals script_adherence/compliance/communication after fallback (Option)
    gate,               \* outcome of the `if self._requires_deep_dive(...)` test
    dd,                 \* progress of _perform_deep_dive
    deep_dive,          \* local `deep_dive` of evaluate_call (Option)
    result,             \* value returned by evaluate_call (Option)
    request,            \* argument of evaluate_call (Option)
    started,              \* how many times each stage coroutine has been started
    error,              \* exception evaluate_call let through to its caller (Option)
    call_attempt,       \* per stage: number of the attempt in flight of its awaited call (0: none)
    gate_classification,\* argument of _requires_deep_dive / _calculate_deep_dive_score
    gate_compliance,    \* argument of _requires_deep_dive / _calculate_deep_dive_score
    gate_result,        \* value returned by _requires_deep_dive (Option)
    severity_score,     \* value returned by _calculate_deep_dive_score (Option)
    evaluation,         \* argument of calculate_overall_score
    final_score,        \* value returned by calculate_overall_score (Option)
    summary,            \* value returned by generate_summary (Option)
    endpoint,           \* route that received the HTTP request
    calls,              \* the requests in the body (one for /evaluate-call)
    settings,           \* app.config.settings
    env,                \* per request: what orchestrator.evaluate_call and the store do
    task,               \* per request: position of its handler coroutine
    results,            \* per request: what its coroutine returned (Option)
    invoked,            \* per request: the services its handler has called, in order
    finished,           \* the requests whose coroutine has returned, in order of return
    response,           \* HTTP response of the route (Option)
    retry_call,         \* the decorated function under call and its arguments (Option)
    attempt_number,     \* tenacity's count of the attempts made in this call
    attempts,           \* outcome of each attempt so far, in order
    upstream_calls,     \* how many requests this call has sent upstream
    retry_result,       \* what the decorated call returned or raised (Option)
    orchestrator,       \* the CallQAOrchestrator shared by concurrent evaluate_call invocations
    frames,             \* per invocation: the locals of its evaluate_call
    ext,                \* per invocation: what each of its external calls does
    templates_cache,    \* PromptLayerClient.templates_cache
    cache_timestamps,   \* PromptLayerClient.cache_timestamps
    utcnow,             \* what datetime.utcnow() reads, in minutes
    fetching,           \* the fetch_prompt_template call awaiting its POST (Option)
    fetched,            \* the last fetch_prompt_template call that ended (Option)
    variables           \* local `variables` of _perform_deep_dive, before json.dumps (Option)

vars == <<pc, initialized, stage1, classification, status, branchRet, facet, gate,
          dd, deep_dive, result, request, started, error, call_attempt,
          gate_classification, gate_compliance, gate_result,
          severity_score, evaluation, final_score, summary,
          endpoint, calls, settings, env, task, results, invoked, finished, response,
          retry_call, attempt_number, attempts, upstream_calls, retry_result,
          orchestrator, frames, ext,
          templates_cache, cache_timestamps, utcnow, fetching, fetched,
          variables>>

pipelineVars == <<pc, initialized, stage1, classification, status, branchRet, facet,
                  gate, dd, deep_dive, result, request, started, error, call_attempt>>
gateVars == <<gate_classification, gate_compliance, gate_result, severity_score>>
scoreVars == <<evaluation, final_score, summary>>
apiVars == <<endpoint, calls, settings, env, task, results, invoked, finished,
             response>>
retryVars == <<retry_call, attempt_number, attempts, upstream_calls, retry_result>>
pairVars == <<orchestrator, frames, ext>>
cacheVars == <<templates_cache, cache_timestamps, utcnow, fetching, fetched>>
deepDiveVars == <<variables>>

(***************************************************************************)
(* Bounds of the model                                                     *)
(***************************************************************************)
\* SpecGate inputs
MaxRedFlags == 4
MaxCoachingNeeded == 5
MaxPreview == 3
MaxGateViolations == 1
\* SpecScore inputs
MaxViolations == 7
MaxScoreCoaching == 1
MaxMissed == 1
MaxExceeded == 2
MaxSections == 2
MaxCriticalMisses == 1
MaxFindings == 3
\* Spec: sizes of the values the LLM may return inside one evaluate_call
\* SpecSummary inputs
MaxSumViolations == 4
MaxSumFlags == 2
MaxSumFindings == 2
MaxSumExceeded == 4
MaxSumCoaching == 5
MaxSumMissed == 4
MaxSumSections == 2
MaxSumMisses == 3
MaxSumAreaFindings == 1
\* SpecApi inputs
MaxBatch == 2
MaxLLMFlags == 1
MaxLLMPreview == 0
MaxLLMItems == 1
MaxLLMFindings == 1

(***************************************************************************)
(* Python values                                                           *)
(***************************************************************************)
None == <<>>
Some(x) == <<x>>

Min(a, b) == IF a < b THEN a ELSE b
Max(a, b) == IF a > b THEN a ELSE b

\* A list of n strings taken cyclically from a pool of sample texts.
StrList(pool, n) == [i \in 1..n |-> pool[((i - 1) % Len(pool)) + 1]]

\* Sequences over S of length at most n.
SeqUpTo(S, n) == UNION {[1..k -> S] : k \in 0..n}

CallOutcome == {"completed", "scheduled", "incomplete", "lost"}
AdherenceLevel == {"high", "medium", "low"}
Severity == {"Critical", "High", "Medium", "Low"}

CallClassification(outcome, preview, flags, rdd, etj) ==
    [call_outcome |-> outcome,
     script_adherence_preview |-> preview,
     red_flags |-> flags,
     requires_deep_dive |-> rdd,
     early_termination_justified |-> etj]

ComplianceSummary(coaching, viol) ==
    [coaching_needed |-> coaching, violations |-> viol]

Compliance(coaching, viol) ==
    [items |-> <<>>, summary |-> ComplianceSummary(coaching, viol)]

CommunicationSummary(exc, mis) == [exceeded |-> exc, missed |-> mis]

Communication(exc, mis) ==
    [skills |-> <<>>, summary |-> CommunicationSummary(exc, mis)]

SectionEvaluation(id, misses) == [section |-> id, critical_misses |-> misses]

ScriptAdherence(secs) == [sections |-> secs]

Finding(text, sev) == [issue |-> text, severity |-> sev]

DeepDive(fs) == [findings |-> fs]

EvaluationResult(c, s, comp, comm, d) ==
    [classification |-> c,
     script_deviation |-> s,
     compliance |-> comp,
     communication |-> comm,
     deep_dive |-> d]

RedFlagTexts == <<"Flag 1", "Flag 2", "Flag 3">>
CoachingTexts == <<"Disclosure", "Professional conduct">>
ViolationTexts == <<"TCPA violation", "CFPB violation">>
MissedTexts == <<"Empathy", "Professionalism", "Clarity">>
ExceededTexts == <<"Empathy", "Clarity">>
MissTexts == <<"Skipped disclosure", "Skipped recap">>

\* The three coroutines handed to asyncio.gather, in argument order.
Branches == {"script", "compliance", "communication"}

\* The five stage coroutines of evaluate_call.
Stages == {"classification"} \cup Branches \cup {"deep_dive"}

\* Call identifiers of the requests handed to evaluate_call.
CallIds == {"call_001"}

EvaluateCallRequest(id, talk_time) ==
    [call_id |-> id, transcript |-> [metadata |-> [talk_time |-> talk_time]]]

(***************************************************************************)
(* The deep-dive gate                                                      *)
(***************************************************************************)

\* len([v for v in classification.script_adherence_preview.values() if v == "low"])
script_issues(c) ==
    Cardinality({i \in DOMAIN c.script_adherence_preview :
                    c.script_adherence_preview[i] = "low"})

\* The running `score` of _calculate_deep_dive_score holds halves (0.5 per
\* coaching item), so it is carried here in half points and int() is the
\* integer division by two.
HalfPoints(c, comp) ==
    LET red_flag_score == 2 * Min(Len(c.red_flags), 3)
        coaching_score == Min(Len(comp.summary.coaching_needed), 4)
        script_score == 2 * Min(script_issues(c), 2)
        outcome_score ==
            IF c.call_outcome = "lost" THEN 2
            ELSE IF c.call_outcome = "incomplete" /\ ~c.early_termination_justified
                 THEN 4
                 ELSE 0
        issue_categories ==
            (IF Len(c.red_flags) > 0 THEN 1 ELSE 0)
            + (IF Len(comp.summary.coaching_needed) > 0 THEN 1 ELSE 0)
            + (IF script_issues(c) > 0 THEN 1 ELSE 0)
        systemic == IF issue_categories >= 2 THEN 2 ELSE 0
    IN  red_flag_score + coaching_score + script_score + outcome_score + systemic

\* Variant: min(len(coaching_needed) * 1, 2), a whole point per coaching item.
_calculate_deep_dive_score_whole_coaching(c, comp) ==
    (HalfPoints(c, comp)
       - Min(Len(comp.summary.coaching_needed), 4)
       + 2 * Min(Len(comp.summary.coaching_needed), 2)) \div 2

\* Variant: red_flag_score = len(classification.red_flags), without the cap.
_calculate_deep_dive_score_uncapped_flags(c, comp) ==
    (HalfPoints(c, comp) - 2 * Min(Len(c.red_flags), 3) + 2 * Len(c.red_flags)) \div 2

_calculate_deep_dive_score(c, comp) == HalfPoints(c, comp) \div 2

threshold == 3

\* Variant: the compliance-violation trigger left out of critical_triggers.
_requires_deep_dive_no_violation_trigger(c, comp) ==
    IF c.requires_deep_dive
    THEN TRUE
    ELSE _calculate_deep_dive_score(c, comp) >= threshold

\* Variant: the classification flag left out of critical_triggers.
_requires_deep_dive_no_flag_trigger(c, comp) ==
    IF Len(comp.summary.violations) > 0
    THEN TRUE
    ELSE _calculate_deep_dive_score(c, comp) >= threshold

\* Variant: strict comparison against the threshold.
_requires_deep_dive_strict(c, comp) ==
    IF Len(comp.summary.violations) > 0 \/ c.requires_deep_dive
    THEN TRUE
    ELSE _calculate_deep_dive_score(c, comp) > threshold

\* Variant: the score is compared for equality with the threshold.
_requires_deep_dive_exact(c, comp) ==
    IF Len(comp.summary.violations) > 0 \/ c.requires_deep_dive
    THEN TRUE
    ELSE _calculate_deep_dive_score(c, comp) = threshold

_requires_deep_dive(c, comp) ==
    IF Len(comp.summary.violations) > 0 \/ c.requires_deep_dive
    THEN TRUE
    ELSE _calculate_deep_dive_score(c, comp) >= threshold

GateClassifications ==
    {CallClassification(o, p, StrList(RedFlagTexts, r), rdd, etj) :
        o \in CallOutcome, p \in SeqUpTo(AdherenceLevel, MaxPreview),
        r \in 0..MaxRedFlags, rdd \in BOOLEAN, etj \in BOOLEAN}

GateCompliances ==
    {Compliance(StrList(CoachingTexts, c), StrList(ViolationTexts, v)) :
        c \in 0..MaxCoachingNeeded, v \in 0..MaxGateViolations}

IdlePipeline ==
    /\ pc = "idle"
    /\ initialized = FALSE
    /\ stage1 = "idle"
    /\ classification = None
    /\ status = [b \in Branches |-> "idle"]
    /\ branchRet = [b \in Branches |-> None]
    /\ facet = [b \in Branches |-> None]
    /\ gate = "unevaluated"
    /\ dd = "idle"
    /\ deep_dive = None
    /\ result = None
    /\ request = None
    /\ started = [s \in Stages |-> 0]
    /\ error = None
    /\ call_attempt = [s \in Stages |-> 0]

NoGateCall ==
    /\ gate_classification = None
    /\ gate_compliance = None
    /\ gate_result = None
    /\ severity_score = None

NoScoreCall ==
    /\ evaluation = None
    /\ final_score = None
    /\ summary = None

\* No decorated function is under call.
NoRetryCall ==
    /\ retry_call = None
    /\ attempt_number = 0
    /\ attempts = <<>>
    /\ upstream_calls = 0
    /\ retry_result = None

\* No concurrent invocations are under way.
NoPairCall ==
    /\ orchestrator = None
    /\ frames = <<>>
    /\ ext = <<>>

\* No template has been fetched: the state PromptLayerClient.__init__ leaves.
NoCacheCall ==
    /\ templates_cache = <<>>
    /\ cache_timestamps = <<>>
    /\ utcnow = 0
    /\ fetching = None
    /\ fetched = None

\* _perform_deep_dive has not been entered.
NoDeepDiveCall == variables = None

\* No HTTP request has been received.
NoApiCall ==
    /\ endpoint = "none"
    /\ calls = <<>>
    /\ settings = [max_concurrent_evaluations |-> 5]
    /\ env = <<>>
    /\ task = <<>>
    /\ results = <<>>
    /\ invoked = <<>>
    /\ finished = <<>>
    /\ response = None

InitGate ==
    /\ IdlePipeline
    /\ NoScoreCall
    /\ NoApiCall
    /\ NoRetryCall
    /\ NoPairCall
    /\ NoCacheCall
    /\ NoDeepDiveCall
    /\ gate_classification \in {Some(c) : c \in GateClassifications}
    /\ gate_compliance \in {Some(c) : c \in GateCompliances}
    /\ gate_result = None
    /\ severity_score = None

CallRequiresDeepDive ==
    /\ gate_classification # None
    /\ gate_result = None
    /\ gate_result' = Some(_requires_deep_dive(gate_classification[1], gate_compliance[1]))
    /\ UNCHANGED <<gate_classification, gate_compliance, severity_score>>
    /\ UNCHANGED pipelineVars
    /\ UNCHANGED scoreVars
    /\ UNCHANGED apiVars
    /\ UNCHANGED retryVars
    /\ UNCHANGED pairVars
    /\ UNCHANGED cacheVars
    /\ UNCHANGED deepDiveVars

CallCalculateDeepDiveScore ==
    /\ gate_classification # None
    /\ severity_score = None
    /\ severity_score' =
          Some(_calculate_deep_dive_score(gate_classification[1], gate_compliance[1]))
    /\ UNCHANGED <<gate_classification, gate_compliance, gate_result>>
    /\ UNCHANGED pipelineVars
    /\ UNCHANGED scoreVars
    /\ UNCHANGED apiVars
    /\ UNCHANGED retryVars
    /\ UNCHANGED pairVars
    /\ UNCHANGED cacheVars
    /\ UNCHANGED deepDiveVars

NextGate == CallRequiresDeepDive \/ CallCalculateDeepDiveScore

SpecGate == InitGate /\ [][NextGate]_vars

(***************************************************************************)
(* Properties of the deep-dive gate (checked under SpecGate)               *)
(***************************************************************************)
GateCalled == gate_result # None
ScoreCalled == severity_score # None
gc == gate_classification[1]
gcomp == gate_compliance[1]

LowCount(c) == Len(SelectSeq(c.script_adherence_preview, LAMBDA v : v = "low"))

\* The severity formula as the specification words it: capped red flags,
\* capped half points (whole part), capped low sections, outcome points, bonus.
ClaimedSeverity(c, comp) ==
    LET r == Len(c.red_flags)
        n == Len(comp.summary.coaching_needed)
        l == LowCount(c)
        o == CASE c.call_outcome = "lost" -> 1
               [] c.call_outcome = "incomplete" /\ ~c.early_termination_justified -> 2
               [] OTHER -> 0
        b == IF Cardinality({k \in {"r", "c", "l"} :
                               \/ k = "r" /\ r > 0
                               \/ k = "c" /\ n > 0
                               \/ k = "l" /\ l > 0}) >= 2
             THEN 1 ELSE 0
    IN  Min(r, 3) + (Min(n, 4) \div 2) + Min(l, 2) + o + b

NothingElse(c, comp, r, n) ==
    /\ Len(c.red_flags) = r
    /\ Len(comp.summary.coaching_needed) = n
    /\ LowCount(c) = 0
    /\ c.call_outcome = "completed"

\* C3: _requires_deep_dive returns true whenever compliance.summary.violations
\* is non-empty, whatever the other fields hold.
C3_ViolationsFireGate ==
    (GateCalled /\ Len(gcomp.summary.violations) > 0) => gate_result[1] = TRUE

\* C3 witness: a violation is the only issue of the pair and the gate fired.
C3_Witness ==
    /\ GateCalled
    /\ Len(gcomp.summary.violations) > 0
    /\ ~gc.requires_deep_dive
    /\ NothingElse(gc, gcomp, 0, 0)
    /\ gate_result[1] = TRUE

\* C4: _requires_deep_dive returns true whenever classification
\* .requires_deep_dive is true, even when the severity score is 0.
C4_FlagFiresGate ==
    (GateCalled /\ gc.requires_deep_dive) => gate_result[1] = TRUE

\* C4 witness: the flag is set on a pair whose severity score is 0.
C4_Witness ==
    /\ GateCalled
    /\ gc.requires_deep_dive
    /\ Len(gcomp.summary.violations) = 0
    /\ NothingElse(gc, gcomp, 0, 0)
    /\ ClaimedSeverity(gc, gcomp) = 0
    /\ gate_result[1] = TRUE

\* C5: with no violations and the flag false, the gate fires iff the
\* truncated severity score is >= 3; exactly 3 (three red flags, nothing
\* else) fires, exactly 2 (two red flags, nothing else) does not.
C5_ThresholdAtThree ==
    (GateCalled /\ Len(gcomp.summary.violations) = 0 /\ ~gc.requires_deep_dive) =>
        /\ gate_result[1] = (ClaimedSeverity(gc, gcomp) >= 3)
        /\ NothingElse(gc, gcomp, 3, 0) => gate_result[1] = TRUE
        /\ NothingElse(gc, gcomp, 2, 0) => gate_result[1] = FALSE

\* C5 witness: three red flags and nothing else score exactly 3 and fire.
C5_Witness ==
    /\ GateCalled
    /\ Len(gcomp.summary.violations) = 0
    /\ ~gc.requires_deep_dive
    /\ NothingElse(gc, gcomp, 3, 0)
    /\ ClaimedSeverity(gc, gcomp) = 3
    /\ gate_result[1] = TRUE

\* C6: _calculate_deep_dive_score is floor(min(r,3) + min(0.5c,2) + min(l,2)
\* + o + b); 1 red flag + 1 coaching item gives 2 and 2 red flags + 1
\* coaching item gives 3.
C6_SeverityFormula ==
    ScoreCalled =>
        /\ severity_score[1] = ClaimedSeverity(gc, gcomp)
        /\ NothingElse(gc, gcomp, 1, 1) => severity_score[1] = 2
        /\ NothingElse(gc, gcomp, 2, 1) => severity_score[1] = 3

\* C6 witness: one red flag and one coaching item scored 2 (1 + 0.5 + 1).
C6_Witness ==
    /\ ScoreCalled
    /\ NothingElse(gc, gcomp, 1, 1)
    /\ severity_score[1] = 2

(***************************************************************************)
(* Scoring                                                                 *)
(***************************************************************************)

\* for section_eval in sections.values(): critical_misses += len(...)
RECURSIVE CountCriticalMisses(_)
CountCriticalMisses(secs) ==
    IF secs = <<>> THEN 0
    ELSE Len(Head(secs).critical_misses) + CountCriticalMisses(Tail(secs))

\* for finding in deep_dive.findings: the if/elif chain on severity.value
RECURSIVE DeductFindings(_, _)
DeductFindings(score, fs) ==
    IF fs = <<>> THEN score
    ELSE LET sev == Head(fs).severity
             next == IF sev = "Critical" THEN score - 20
                     ELSE IF sev = "High" THEN score - 15
                     ELSE IF sev = "Medium" THEN score - 10
                     ELSE IF sev = "Low" THEN score - 5
                     ELSE score
         IN  DeductFindings(next, Tail(fs))

\* The unclamped `score` local just before `final_score = max(1, min(100, score))`.
RawScore(e) ==
    LET s0 == 100
        s1 == s0 - Len(e.compliance.summary.violations) * 15
        s2 == s1 - Len(e.compliance.summary.coaching_needed) * 5
        s3 == s2 - Len(e.communication.summary.missed) * 3
        s4 == s3 + Len(e.communication.summary.exceeded) * 2
        s5 == s4 - CountCriticalMisses(e.script_deviation.sections) * 10
    IN  IF e.deep_dive # None THEN DeductFindings(s5, e.deep_dive[1].findings) ELSE s5

\* Variant: the bounds check keeps only the upper bound.
calculate_overall_score_no_floor(e) == Min(100, RawScore(e))

\* Variant: the deep-dive findings are not deducted.
calculate_overall_score_no_findings(e) ==
    LET f == [e EXCEPT !.deep_dive = None] IN Max(1, Min(100, RawScore(f)))

\* Variant: the bonus is added first and capped at 100 before the deductions.
calculate_overall_score_bonus_capped(e) ==
    LET bonus == Len(e.communication.summary.exceeded) * 2
        capped == Min(100, 100 + bonus)
    IN  Max(1, Min(100, capped + (RawScore(e) - 100 - bonus)))

calculate_overall_score(e) == Max(1, Min(100, RawScore(e)))

SectionLists ==
    UNION {{[i \in 1..k |-> SectionEvaluation(i, StrList(MissTexts, n[i]))] :
                n \in [1..k -> 0..MaxCriticalMisses]} : k \in 0..MaxSections}

FindingLists ==
    {[i \in 1..Len(sv) |-> Finding("Issue", sv[i])] : sv \in SeqUpTo(Severity, MaxFindings)}

PlainClassification == CallClassification("completed", <<>>, <<>>, FALSE, FALSE)

\* Results that vary the list lengths, without findings.
CountInputs ==
    {EvaluationResult(PlainClassification,
                      ScriptAdherence(secs),
                      Compliance(StrList(CoachingTexts, c), StrList(ViolationTexts, v)),
                      Communication(StrList(ExceededTexts, x), StrList(MissedTexts, m)),
                      d) :
        secs \in SectionLists,
        c \in 0..MaxScoreCoaching, v \in 0..MaxViolations,
        x \in 0..MaxExceeded, m \in 0..MaxMissed,
        d \in {None, Some(DeepDive(<<>>))}}

\* Results that vary the deep-dive findings, on top of violations, exceeded
\* skills and the critical misses of at most one section.
FindingInputs ==
    {EvaluationResult(PlainClassification,
                      ScriptAdherence(secs),
                      Compliance(<<>>, StrList(ViolationTexts, v)),
                      Communication(StrList(ExceededTexts, x), <<>>),
                      Some(DeepDive(fs))) :
        secs \in {sl \in SectionLists : Len(sl) <= 1},
        v \in 0..MaxViolations, x \in 0..MaxExceeded,
        fs \in FindingLists}

ScoreInputs == CountInputs \cup FindingInputs

InitScore ==
    /\ IdlePipeline
    /\ NoGateCall
    /\ evaluation \in {Some(e) : e \in ScoreInputs}
    /\ final_score = None
    /\ summary = None
    /\ NoApiCall
    /\ NoRetryCall
    /\ NoPairCall
    /\ NoCacheCall
    /\ NoDeepDiveCall

CallCalculateOverallScore ==
    /\ evaluation # None
    /\ final_score = None
    /\ final_score' = Some(calculate_overall_score(evaluation[1]))
    /\ UNCHANGED <<evaluation, summary>>
    /\ UNCHANGED pipelineVars
    /\ UNCHANGED gateVars
    /\ UNCHANGED apiVars
    /\ UNCHANGED retryVars
    /\ UNCHANGED pairVars
    /\ UNCHANGED cacheVars
    /\ UNCHANGED deepDiveVars

NextScore == CallCalculateOverallScore

SpecScore == InitScore /\ [][NextScore]_vars

(***************************************************************************)
(* Properties of the overall score (checked under SpecScore)               *)
(***************************************************************************)
Scored == final_score # None
ev == evaluation[1]

CountSeverity(fs, sev) == Cardinality({i \in DOMAIN fs : fs[i].severity = sev})

RECURSIVE SumOver(_, _)
SumOver(f, S) ==
    IF S = {} THEN 0
    ELSE LET x == CHOOSE y \in S : TRUE IN f[x] + SumOver(f, S \ {x})

v_count == Len(ev.compliance.summary.violations)
c_count == Len(ev.compliance.summary.coaching_needed)
m_count == Len(ev.communication.summary.missed)
e_count == Len(ev.communication.summary.exceeded)
k_count ==
    LET secs == ev.script_deviation.sections
    IN  SumOver([i \in DOMAIN secs |-> Len(secs[i].critical_misses)], DOMAIN secs)
D_sum ==
    IF ev.deep_dive = None THEN 0
    ELSE LET fs == ev.deep_dive[1].findings
         IN  20 * CountSeverity(fs, "Critical") + 15 * CountSeverity(fs, "High")
             + 10 * CountSeverity(fs, "Medium") + 5 * CountSeverity(fs, "Low")

ClaimedRaw ==
    100 - 15 * v_count - 5 * c_count - 3 * m_count + 2 * e_count - 10 * k_count - D_sum

Clamp(x, lo, hi) == IF x < lo THEN lo ELSE IF x > hi THEN hi ELSE x

\* C1: calculate_overall_score returns an integer s with 1 <= s <= 100 for
\* every EvaluationResult, also when the raw sum is far outside that range.
C1_ScoreInRange ==
    Scored => (final_score[1] \in Int /\ 1 <= final_score[1] /\ final_score[1] <= 100)

\* C1 witness: the raw sum is far below 1 (at most -50) and the score is 1.
C1_Witness ==
    /\ Scored
    /\ ClaimedRaw <= -50
    /\ final_score[1] = 1

\* C1 second case: the raw sum is above 100 and the score is 100.
C1_WitnessAbove ==
    /\ Scored
    /\ ClaimedRaw > 100
    /\ final_score[1] = 100

\* C2: the score is clamp(100 - 15v - 5c - 3m + 2e - 10k - D, 1, 100);
\* v=2, c=1, m=1, nothing else gives 62; findings [Critical, High, Low]
\* deduct 40.
C2_ScoreFormula ==
    Scored =>
        /\ final_score[1] = Clamp(ClaimedRaw, 1, 100)
        /\ (v_count = 2 /\ c_count = 1 /\ m_count = 1 /\ e_count = 0 /\ k_count = 0
              /\ ev.deep_dive = None) => final_score[1] = 62
        /\ (v_count = 0 /\ c_count = 0 /\ m_count = 0 /\ e_count = 0 /\ k_count = 0
              /\ ev.deep_dive # None
              /\ ev.deep_dive[1].findings
                   = <<Finding("Issue", "Critical"), Finding("Issue", "High"),
                       Finding("Issue", "Low")>>) => final_score[1] = 60

\* C2 witness: findings [Critical, High, Low] on top of one critical miss
\* and one exceeded skill: 100 + 2 - 10 - 40 = 52.
C2_Witness ==
    /\ Scored
    /\ ev.deep_dive # None
    /\ ev.deep_dive[1].findings
         = <<Finding("Issue", "Critical"), Finding("Issue", "High"), Finding("Issue", "Low")>>
    /\ v_count = 0 /\ c_count = 0 /\ m_count = 0 /\ e_count = 1 /\ k_count = 1
    /\ final_score[1] = 52

(***************************************************************************)
(* FallbackManager                                                         *)
(***************************************************************************)
_classification_fallback ==
    CallClassification("incomplete", <<>>,
                       <<"Evaluation failed - manual review required">>, TRUE, FALSE)

\* Variant: the stand-in lists no violation.
_compliance_fallback_clean == Compliance(<<>>, <<>>)

_compliance_fallback ==
    Compliance(<<>>, <<"Manual review required due to evaluation failure">>)

_communication_fallback ==
    Communication(<<>>, <<"Manual evaluation required due to system failure">>)

_script_adherence_fallback == ScriptAdherence(<<>>)

fallback_strategies ==
    [CallClassification |-> _classification_fallback,
     Compliance |-> _compliance_fallback,
     Communication |-> _communication_fallback,
     ScriptAdherence |-> _script_adherence_fallback]

\* Variant: a name without a strategy gets the classification stand-in.
get_fallback_default(schema_name) ==
    IF schema_name \in DOMAIN fallback_strategies
    THEN [raised |-> FALSE, value |-> Some(fallback_strategies[schema_name])]
    ELSE [raised |-> FALSE, value |-> Some(_classification_fallback)]

\* get_fallback: the stand-in for a known schema name, ValueError otherwise.
get_fallback(schema_name) ==
    IF schema_name \in DOMAIN fallback_strategies
    THEN [raised |-> FALSE, value |-> Some(fallback_strategies[schema_name])]
    ELSE [raised |-> TRUE, value |-> None]

(***************************************************************************)
(* evaluate_call                                                           *)
(***************************************************************************)
Settled == {"ok", "tpl_failed", "llm_failed"}
Failed == {"tpl_failed", "llm_failed"}

\* Length pairs of two summary lists of which at most one is filled.
OneSided(n) == {p \in (0..n) \X (0..n) : p[1] = 0 \/ p[2] = 0}

\* Values the structured completion may return for each response_model.
\* evaluate_call reads nothing of the script and communication evaluations,
\* so few values of each stand for all.
\* Only "low" preview entries weigh in the gate; early_termination_justified
\* is read for incomplete calls only; the preview and the red flags are
\* filled one at a time.
LLMClassifications ==
    {c \in {CallClassification(o, p, StrList(RedFlagTexts, r), rdd, etj) :
                o \in CallOutcome, p \in SeqUpTo({"low"}, MaxLLMPreview),
                r \in 0..MaxLLMFlags, rdd \in BOOLEAN, etj \in BOOLEAN} :
        /\ c.early_termination_justified => c.call_outcome = "incomplete"
        /\ Len(c.script_adherence_preview) > 0 => Len(c.red_flags) = 0}

LLMValues(b) ==
    CASE b = "script" ->
            {ScriptAdherence(<<>>),
             ScriptAdherence(<<SectionEvaluation(1, StrList(MissTexts, MaxLLMItems))>>)}
      [] b = "compliance" ->
            {Compliance(StrList(CoachingTexts, n[1]), StrList(ViolationTexts, n[2])) :
                n \in OneSided(MaxLLMItems)}
      [] b = "communication" ->
            {Communication(StrList(ExceededTexts, n), <<>>) : n \in 0..MaxLLMItems}

\* evaluate_call never reads the findings, so one severity stands for all.
LLMDeepDives ==
    {DeepDive([i \in 1..Len(sv) |-> Finding("Issue", sv[i])]) :
        sv \in SeqUpTo({"High"}, MaxLLMFindings)}

\* Exceptions of execute_prompt_template / extract_llm_kwargs for a template:
\* unknown template (404, names the template), network error (status 0),
\* response without llm_kwargs.  `names` holds the identifiers the
\* exception's text and attributes carry.
TemplateErrors(prompt_name) ==
    {[type |-> "PromptLayerAPIError", status_code |-> 404, names |-> {prompt_name}],
     [type |-> "PromptLayerAPIError", status_code |-> 0, names |-> {}],
     [type |-> "PromptLayerValidationError", names |-> {}]}

\* tenacity without reraise wraps the last failed completion attempt.
CompletionErrors == {[type |-> "RetryError", names |-> {}]}

Init ==
    /\ pc = "idle"
    /\ initialized = FALSE
    /\ stage1 = "idle"
    /\ classification = None
    /\ status = [b \in Branches |-> "idle"]
    /\ branchRet = [b \in Branches |-> None]
    /\ facet = [b \in Branches |-> None]
    /\ gate = "unevaluated"
    /\ dd = "idle"
    /\ deep_dive = None
    /\ result = None
    /\ request \in {Some(EvaluateCallRequest(id, Some(240))) : id \in CallIds}
    /\ started = [s \in Stages |-> 0]
    /\ error = None
    /\ call_attempt = [s \in Stages |-> 0]
    /\ NoGateCall
    /\ NoScoreCall
    /\ NoApiCall
    /\ NoRetryCall
    /\ NoPairCall
    /\ NoCacheCall
    /\ NoDeepDiveCall

\* Entry of evaluate_call: initialize() on first use, then _classify_call
\* runs up to its first await (the template request).
Enter ==
    /\ pc = "idle"
    /\ initialized' = TRUE
    /\ pc' = "stage1"
    /\ stage1' = "tpl"
    /\ started' = [started EXCEPT !["classification"] = @ + 1]
    /\ call_attempt' = [call_attempt EXCEPT !["classification"] = 1]
    /\ UNCHANGED <<classification, status, branchRet, facet, gate, dd, deep_dive, result,
                   request, error>>
    /\ UNCHANGED gateVars
    /\ UNCHANGED scoreVars
    /\ UNCHANGED apiVars
    /\ UNCHANGED retryVars
    /\ UNCHANGED pairVars
    /\ UNCHANGED cacheVars
    /\ UNCHANGED deepDiveVars

\* Variant: a failed classification is replaced by the classification
\* fallback and the workflow goes on.
Stage1Raise_fallback(how, e) ==
    /\ stage1' = how
    /\ classification' = get_fallback("CallClassification").value
    /\ pc' = "stage2"
    /\ status' = [b \in Branches |-> "scheduled"]
    /\ UNCHANGED error

\* `except Exception as e: ... raise` around a failed `await self._classify_call`.
Stage1Raise(how, e) ==
    /\ stage1' = how
    /\ pc' = "raised"
    /\ error' = Some(e)
    /\ UNCHANGED <<classification, status>>

\* execute_prompt_template("call_qa_router_classifier") and extract_llm_kwargs
\* settle with a usable descriptor or with an error, or an attempt at the
\* template request fails and is retried (extract_llm_kwargs is not retried).
ClassifyTemplate ==
    /\ pc = "stage1"
    /\ stage1 = "tpl"
    /\ \/ /\ stage1' = "llm"
          /\ call_attempt' = [call_attempt EXCEPT !["classification"] = 1]
          /\ UNCHANGED <<pc, classification, status, error>>
       \/ \E e \in TemplateErrors("call_qa_router_classifier") :
             IF e.type = "PromptLayerValidationError" \/ call_attempt["classification"] >= 3
             THEN /\ Stage1Raise("tpl_failed", e)
                  /\ call_attempt' = [call_attempt EXCEPT !["classification"] = 0]
             ELSE /\ call_attempt' = [call_attempt EXCEPT !["classification"] = @ + 1]
                  /\ UNCHANGED <<stage1, pc, classification, status, error>>
    /\ UNCHANGED <<initialized, branchRet, facet, gate, dd, deep_dive, result, request, started>>
    /\ UNCHANGED gateVars
    /\ UNCHANGED scoreVars
    /\ UNCHANGED apiVars
    /\ UNCHANGED retryVars
    /\ UNCHANGED pairVars
    /\ UNCHANGED cacheVars
    /\ UNCHANGED deepDiveVars

\* Variant: the classification scopes Stage 2; script adherence is not
\* evaluated for lost calls and its fallback stands in.
ClassifyComplete_scoped ==
    /\ pc = "stage1"
    /\ stage1 = "llm"
    /\ \/ \E c \in LLMClassifications :
            /\ stage1' = "ok"
            /\ classification' = Some(c)
            /\ pc' = "stage2"
            /\ status' = [b \in Branches |->
                            IF b = "script" /\ c.call_outcome = "lost"
                            THEN "tpl_failed" ELSE "scheduled"]
            /\ call_attempt' = [call_attempt EXCEPT !["classification"] = 0]
            /\ UNCHANGED error
       \/ \E e \in CompletionErrors :
             IF call_attempt["classification"] >= 3
             THEN /\ Stage1Raise("llm_failed", e)
                  /\ call_attempt' = [call_attempt EXCEPT !["classification"] = 0]
             ELSE /\ call_attempt' = [call_attempt EXCEPT !["classification"] = @ + 1]
                  /\ UNCHANGED <<stage1, pc, classification, status, error>>
    /\ UNCHANGED <<initialized, branchRet, facet, gate, dd, deep_dive, result, request, started>>
    /\ UNCHANGED gateVars
    /\ UNCHANGED scoreVars
    /\ UNCHANGED apiVars
    /\ UNCHANGED retryVars
    /\ UNCHANGED pairVars
    /\ UNCHANGED cacheVars
    /\ UNCHANGED deepDiveVars

\* get_structured_response_from_llm_kwargs(CallClassification) settles; on
\* success the three Stage-2 coroutines are created and handed to gather.
ClassifyComplete ==
    /\ pc = "stage1"
    /\ stage1 = "llm"
    /\ \/ \E c \in LLMClassifications :
            /\ stage1' = "ok"
            /\ classification' = Some(c)
            /\ pc' = "stage2"
            /\ status' = [b \in Branches |-> "scheduled"]
            /\ call_attempt' = [call_attempt EXCEPT !["classification"] = 0]
            /\ UNCHANGED error
       \/ \E e \in CompletionErrors :
             IF call_attempt["classification"] >= 3
             THEN /\ Stage1Raise("llm_failed", e)
                  /\ call_attempt' = [call_attempt EXCEPT !["classification"] = 0]
             ELSE /\ call_attempt' = [call_attempt EXCEPT !["classification"] = @ + 1]
                  /\ UNCHANGED <<stage1, pc, classification, status, error>>
    /\ UNCHANGED <<initialized, branchRet, facet, gate, dd, deep_dive, result, request, started>>
    /\ UNCHANGED gateVars
    /\ UNCHANGED scoreVars
    /\ UNCHANGED apiVars
    /\ UNCHANGED retryVars
    /\ UNCHANGED pairVars
    /\ UNCHANGED cacheVars
    /\ UNCHANGED deepDiveVars

\* A gathered coroutine runs up to its first await (its template request).
BranchStart(b) ==
    /\ pc = "stage2"
    /\ status[b] = "scheduled"
    /\ status' = [status EXCEPT ![b] = "tpl"]
    /\ started' = [started EXCEPT ![b] = @ + 1]
    /\ call_attempt' = [call_attempt EXCEPT ![b] = 1]
    /\ UNCHANGED <<pc, initialized, stage1, classification, branchRet, facet, gate,
                   dd, deep_dive, result, request, error>>
    /\ UNCHANGED gateVars
    /\ UNCHANGED scoreVars
    /\ UNCHANGED apiVars
    /\ UNCHANGED retryVars
    /\ UNCHANGED pairVars
    /\ UNCHANGED cacheVars
    /\ UNCHANGED deepDiveVars

\* Variant: a task-group style gather that stops the remaining coroutines
\* once one of them has raised.
BranchTemplate_cancelled(b) ==
    /\ pc = "stage2"
    /\ status[b] = "tpl"
    /\ \A o \in Branches \ {b} : status[o] \notin Failed
    /\ \/ /\ status' = [status EXCEPT ![b] = "llm"]
          /\ call_attempt' = [call_attempt EXCEPT ![b] = 1]
       \/ /\ status' = [status EXCEPT ![b] = "tpl_failed"]
          /\ call_attempt' = [call_attempt EXCEPT ![b] = 0]
       \/ /\ call_attempt[b] < 3
          /\ call_attempt' = [call_attempt EXCEPT ![b] = @ + 1]
          /\ UNCHANGED status
    /\ UNCHANGED <<pc, initialized, stage1, classification, branchRet, facet, gate,
                   dd, deep_dive, result, request, started, error>>
    /\ UNCHANGED gateVars
    /\ UNCHANGED scoreVars
    /\ UNCHANGED apiVars
    /\ UNCHANGED retryVars
    /\ UNCHANGED pairVars
    /\ UNCHANGED cacheVars
    /\ UNCHANGED deepDiveVars

\* The branch's template resolution settles, or an attempt at it fails and
\* is retried.
BranchTemplate(b) ==
    /\ pc = "stage2"
    /\ status[b] = "tpl"
    /\ \/ /\ status' = [status EXCEPT ![b] = "llm"]
          /\ call_attempt' = [call_attempt EXCEPT ![b] = 1]
       \/ /\ status' = [status EXCEPT ![b] = "tpl_failed"]
          /\ call_attempt' = [call_attempt EXCEPT ![b] = 0]
       \/ /\ call_attempt[b] < 3
          /\ call_attempt' = [call_attempt EXCEPT ![b] = @ + 1]
          /\ UNCHANGED status
    /\ UNCHANGED <<pc, initialized, stage1, classification, branchRet, facet, gate,
                   dd, deep_dive, result, request, started, error>>
    /\ UNCHANGED gateVars
    /\ UNCHANGED scoreVars
    /\ UNCHANGED apiVars
    /\ UNCHANGED retryVars
    /\ UNCHANGED pairVars
    /\ UNCHANGED cacheVars
    /\ UNCHANGED deepDiveVars

\* Variant: after the third failed completion the coroutine goes back to its
\* template request.
BranchComplete_restart(b) ==
    /\ pc = "stage2"
    /\ status[b] = "llm"
    /\ \/ \E v \in LLMValues(b) :
            /\ status' = [status EXCEPT ![b] = "ok"]
            /\ branchRet' = [branchRet EXCEPT ![b] = Some(v)]
            /\ call_attempt' = [call_attempt EXCEPT ![b] = 0]
       \/ /\ call_attempt[b] >= 3
          /\ status' = [status EXCEPT ![b] = "tpl"]
          /\ call_attempt' = [call_attempt EXCEPT ![b] = 1]
          /\ UNCHANGED branchRet
       \/ /\ call_attempt[b] < 3
          /\ call_attempt' = [call_attempt EXCEPT ![b] = @ + 1]
          /\ UNCHANGED <<status, branchRet>>
    /\ UNCHANGED <<pc, initialized, stage1, classification, facet, gate,
                   dd, deep_dive, result, request, started, error>>
    /\ UNCHANGED gateVars
    /\ UNCHANGED scoreVars
    /\ UNCHANGED apiVars
    /\ UNCHANGED retryVars
    /\ UNCHANGED pairVars
    /\ UNCHANGED cacheVars
    /\ UNCHANGED deepDiveVars

\* The branch's structured completion settles, or an attempt at it fails and
\* is retried.
BranchComplete(b) ==
    /\ pc = "stage2"
    /\ status[b] = "llm"
    /\ \/ \E v \in LLMValues(b) :
            /\ status' = [status EXCEPT ![b] = "ok"]
            /\ branchRet' = [branchRet EXCEPT ![b] = Some(v)]
            /\ call_attempt' = [call_attempt EXCEPT ![b] = 0]
       \/ /\ call_attempt[b] >= 3
          /\ status' = [status EXCEPT ![b] = "llm_failed"]
          /\ call_attempt' = [call_attempt EXCEPT ![b] = 0]
          /\ UNCHANGED branchRet
       \/ /\ call_attempt[b] < 3
          /\ call_attempt' = [call_attempt EXCEPT ![b] = @ + 1]
          /\ UNCHANGED <<status, branchRet>>
    /\ UNCHANGED <<pc, initialized, stage1, classification, facet, gate,
                   dd, deep_dive, result, request, started, error>>
    /\ UNCHANGED gateVars
    /\ UNCHANGED scoreVars
    /\ UNCHANGED apiVars
    /\ UNCHANGED retryVars
    /\ UNCHANGED pairVars
    /\ UNCHANGED cacheVars
    /\ UNCHANGED deepDiveVars

\* Variant: the join waits for the compliance coroutine only.
GatherReady_compliance_only == status["compliance"] \in Settled

\* asyncio.gather(..., return_exceptions=True) resumes its awaiter once all
\* three coroutines have returned or raised.
GatherReady == \A b \in Branches : status[b] \in Settled

\* Variant: the fallback is looked up under the result field's name.
SchemaName_by_field(b) ==
    CASE b = "script" -> "ScriptDeviation"
      [] b = "compliance" -> "Compliance"
      [] b = "communication" -> "Communication"

\* The schema name evaluate_call passes to get_fallback for each slot.
SchemaName(b) ==
    CASE b = "script" -> "ScriptAdherence"
      [] b = "compliance" -> "Compliance"
      [] b = "communication" -> "Communication"

\* `if isinstance(x, Exception): x = await self.fallback_manager.get_fallback(...)`
Substitute(b) ==
    IF status[b] \in Failed
    THEN get_fallback(SchemaName(b))
    ELSE [raised |-> FALSE, value |-> branchRet[b]]

\* "\n".join(lines)
RECURSIVE JoinLines(_)
JoinLines(lines) ==
    IF Len(lines) = 0 THEN ""
    ELSE IF Len(lines) = 1 THEN lines[1]
    ELSE lines[1] \o "\n" \o JoinLines(Tail(lines))

\* The `variables` _perform_deep_dive builds from its arguments, up to the
\* json.dumps of evaluation_results; model_dump keeps every field under its
\* name.  The transcript text is not modelled.
DeepDiveVariables(c, comp) ==
    [evaluation_results |-> [classification |-> c, compliance |-> comp],
     red_flags |-> IF Len(c.red_flags) > 0 THEN JoinLines(c.red_flags)
                   ELSE "None identified"]

Assemble(f, d) ==
    EvaluationResult(classification[1], f["script"][1], f["compliance"][1],
                     f["communication"][1], d)

\* Variant: the deep dive is started whatever the gate decides.
Join_always_deep_dive ==
    /\ pc = "stage2"
    /\ GatherReady
    /\ IF \E b \in Branches : Substitute(b).raised
       THEN /\ pc' = "raised"
            /\ error' = Some([type |-> "ValueError",
                              names |-> {SchemaName(b) : b \in
                                            {x \in Branches : Substitute(x).raised}}])
            /\ UNCHANGED <<facet, gate, dd, deep_dive, result, started, call_attempt,
                         variables>>
       ELSE LET f == [b \in Branches |-> Substitute(b).value]
            IN  /\ facet' = f
                /\ deep_dive' = None
                /\ UNCHANGED error
                /\ gate' = IF _requires_deep_dive(classification[1], f["compliance"][1])
                           THEN "fired" ELSE "skipped"
                /\ dd' = "tpl"
                /\ pc' = "stage3"
                /\ started' = [started EXCEPT !["deep_dive"] = @ + 1]
                /\ call_attempt' = [call_attempt EXCEPT !["deep_dive"] = 1]
                /\ variables' = Some(DeepDiveVariables(classification[1],
                                                        f["compliance"][1]))
                /\ UNCHANGED result
    /\ UNCHANGED <<initialized, stage1, classification, status, branchRet, request>>
    /\ UNCHANGED gateVars
    /\ UNCHANGED scoreVars
    /\ UNCHANGED apiVars
    /\ UNCHANGED retryVars
    /\ UNCHANGED pairVars
    /\ UNCHANGED cacheVars

\* gather returns: fallbacks are substituted, the gate is tested, and either
\* _perform_deep_dive runs up to its first await or the result is returned.
Join ==
    /\ pc = "stage2"
    /\ GatherReady
    /\ IF \E b \in Branches : Substitute(b).raised
       THEN /\ pc' = "raised"
            /\ error' = Some([type |-> "ValueError",
                              names |-> {SchemaName(b) : b \in
                                            {x \in Branches : Substitute(x).raised}}])
            /\ UNCHANGED <<facet, gate, dd, deep_dive, result, started, call_attempt,
                         variables>>
       ELSE LET f == [b \in Branches |-> Substitute(b).value]
            IN  /\ facet' = f
                /\ deep_dive' = None
                /\ UNCHANGED error
                /\ IF _requires_deep_dive(classification[1], f["compliance"][1])
                   THEN /\ gate' = "fired"
                        /\ dd' = "tpl"
                        /\ pc' = "stage3"
                        /\ started' = [started EXCEPT !["deep_dive"] = @ + 1]
                        /\ call_attempt' = [call_attempt EXCEPT !["deep_dive"] = 1]
                        /\ variables' = Some(DeepDiveVariables(classification[1],
                                                                f["compliance"][1]))
                        /\ UNCHANGED result
                   ELSE /\ gate' = "skipped"
                        /\ result' = Some(Assemble(f, None))
                        /\ pc' = "returned"
                        /\ UNCHANGED <<dd, started, call_attempt, variables>>
    /\ UNCHANGED <<initialized, stage1, classification, status, branchRet, request>>
    /\ UNCHANGED gateVars
    /\ UNCHANGED scoreVars
    /\ UNCHANGED apiVars
    /\ UNCHANGED retryVars
    /\ UNCHANGED pairVars
    /\ UNCHANGED cacheVars

\* Variant: the deep-dive failure is re-raised.
DeepDiveFailed_raise(how) ==
    /\ dd' = how
    /\ pc' = "raised"
    /\ error' = Some([type |-> "RetryError", names |-> {}])
    /\ UNCHANGED <<deep_dive, result>>

\* `except Exception as e: ... deep_dive = None`, then the result is returned.
DeepDiveFailed(how) ==
    /\ dd' = how
    /\ deep_dive' = None
    /\ result' = Some(Assemble(facet, None))
    /\ pc' = "returned"
    /\ UNCHANGED error

\* The deep dive's template resolution settles.
DeepDiveTemplate ==
    /\ pc = "stage3"
    /\ dd = "tpl"
    /\ \/ /\ dd' = "llm"
          /\ call_attempt' = [call_attempt EXCEPT !["deep_dive"] = 1]
          /\ UNCHANGED <<pc, deep_dive, result, error>>
       \/ /\ DeepDiveFailed("tpl_failed")
          /\ call_attempt' = [call_attempt EXCEPT !["deep_dive"] = 0]
       \/ /\ call_attempt["deep_dive"] < 3
          /\ call_attempt' = [call_attempt EXCEPT !["deep_dive"] = @ + 1]
          /\ UNCHANGED <<dd, pc, deep_dive, result, error>>
    /\ UNCHANGED <<initialized, stage1, classification, status, branchRet, facet, gate,
                   request, started>>
    /\ UNCHANGED gateVars
    /\ UNCHANGED scoreVars
    /\ UNCHANGED apiVars
    /\ UNCHANGED retryVars
    /\ UNCHANGED pairVars
    /\ UNCHANGED cacheVars
    /\ UNCHANGED deepDiveVars

\* The deep dive's structured completion settles and evaluate_call returns.
DeepDiveComplete ==
    /\ pc = "stage3"
    /\ dd = "llm"
    /\ \/ \E d \in LLMDeepDives :
            /\ dd' = "ok"
            /\ deep_dive' = Some(d)
            /\ result' = Some(Assemble(facet, Some(d)))
            /\ pc' = "returned"
            /\ call_attempt' = [call_attempt EXCEPT !["deep_dive"] = 0]
            /\ UNCHANGED error
       \/ /\ call_attempt["deep_dive"] >= 3
          /\ DeepDiveFailed("llm_failed")
          /\ call_attempt' = [call_attempt EXCEPT !["deep_dive"] = 0]
       \/ /\ call_attempt["deep_dive"] < 3
          /\ call_attempt' = [call_attempt EXCEPT !["deep_dive"] = @ + 1]
          /\ UNCHANGED <<dd, pc, deep_dive, result, error>>
    /\ UNCHANGED <<initialized, stage1, classification, status, branchRet, facet, gate,
                   request, started>>
    /\ UNCHANGED gateVars
    /\ UNCHANGED scoreVars
    /\ UNCHANGED apiVars
    /\ UNCHANGED retryVars
    /\ UNCHANGED pairVars
    /\ UNCHANGED cacheVars
    /\ UNCHANGED deepDiveVars

Next ==
    \/ Enter
    \/ ClassifyTemplate
    \/ ClassifyComplete
    \/ \E b \in Branches : BranchStart(b)
    \/ \E b \in Branches : BranchTemplate(b)
    \/ \E b \in Branches : BranchComplete(b)
    \/ Join
    \/ DeepDiveTemplate
    \/ DeepDiveComplete

Spec == Init /\ [][Next]_vars

\* Every external call eventually returns or fails and the event loop runs
\* whatever is ready: a step that stays possible is eventually taken.
SpecLive == Init /\ [][Next]_vars /\ WF_vars(Next)

(***************************************************************************)
(* Properties of evaluate_call (checked under Spec)                        *)
(***************************************************************************)
FailedBranches == {b \in Branches : status[b] \in Failed}
Joined == pc \in {"stage3", "returned"}

ResultFacet(b) ==
    CASE b = "script" -> result[1].script_deviation
      [] b = "compliance" -> result[1].compliance
      [] b = "communication" -> result[1].communication

\* The stand-in the specification names for each Stage-2 shape.
StandIn(b) ==
    CASE b = "script" -> _script_adherence_fallback
      [] b = "compliance" -> _compliance_fallback
      [] b = "communication" -> _communication_fallback

\* C7: whichever subset of the Stage-2 branches raises, evaluate_call raises
\* nothing because of it and goes on to return an EvaluationResult in which
\* every branch that returned appears as returned and every branch that
\* raised is replaced by the fallback of its own shape.
C7_BranchFailuresAbsorbed ==
    /\ FailedBranches # {} => pc # "raised"
    /\ (GatherReady /\ pc # "returned") => ENABLED Next
    /\ Joined =>
          \A b \in Branches :
             /\ status[b] = "ok" => facet[b] = branchRet[b]
             /\ status[b] \in Failed => facet[b] = Some(StandIn(b))
    /\ pc = "returned" =>
          /\ result # None
          /\ \A b \in Branches :
                /\ status[b] = "ok" => Some(ResultFacet(b)) = branchRet[b]
                /\ status[b] \in Failed => ResultFacet(b) = StandIn(b)

\* C7 witness: all three branches raised and a result made of the three
\* fallbacks was returned.
C7_Witness ==
    /\ pc = "returned"
    /\ FailedBranches = Branches
    /\ \A b \in Branches : ResultFacet(b) = StandIn(b)

\* C7 second case: exactly one branch raised; the other two are verbatim.
C7_WitnessOne ==
    /\ pc = "returned"
    /\ FailedBranches = {"communication"}
    /\ Some(result[1].script_deviation) = branchRet["script"]
    /\ Some(result[1].compliance) = branchRet["compliance"]
    /\ result[1].communication = _communication_fallback

\* C8: when Stage 1 fails, evaluate_call raises, returns no result,
\* substitutes no classification fallback and starts neither a Stage-2
\* evaluation nor the deep dive.
C8_Stage1Fatal ==
    stage1 \in Failed =>
        /\ pc = "raised"
        /\ result = None
        /\ classification = None
        /\ \A b \in Branches : status[b] = "idle"
        /\ gate = "unevaluated"
        /\ dd = "idle"

\* C8 witness: the structured completion of the classification failed and
\* evaluate_call raised.
C8_Witness ==
    /\ stage1 = "llm_failed"
    /\ pc = "raised"

\* C8 second case: the template resolution of the classification failed.
C8_WitnessTemplate ==
    /\ stage1 = "tpl_failed"
    /\ pc = "raised"

\* C9: when the gate fires and the deep dive raises, evaluate_call returns
\* a result with deep_dive None, the classification and the three Stage-2
\* facets as they were before the deep dive, and raises nothing.
C9_DeepDiveFailureOmitted ==
    dd \in Failed =>
        /\ gate = "fired"
        /\ pc = "returned"
        /\ result # None
        /\ result[1].deep_dive = None
        /\ Some(result[1].classification) = classification
        /\ \A b \in Branches : Some(ResultFacet(b)) = facet[b]

\* C9 witness: the gate fired on a violation, the deep-dive completion
\* failed and the result was returned without a deep dive.
C9_Witness ==
    /\ dd = "llm_failed"
    /\ gate = "fired"
    /\ pc = "returned"
    /\ Len(result[1].compliance.summary.violations) > 0
    /\ result[1].deep_dive = None

\* C10: no Stage-2 evaluation starts before the classification has
\* completed successfully; the gate is not evaluated and the deep dive not
\* started before all three Stage-2 branches have settled.
C10_StageOrder ==
    /\ (\E b \in Branches : status[b] # "idle") => (stage1 = "ok" /\ classification # None)
    /\ (gate # "unevaluated" \/ dd # "idle") => \A b \in Branches : status[b] \in Settled

\* C10 witness: the deep dive is in flight after a mix of successful and
\* failed Stage-2 branches.
C10_Witness ==
    /\ dd = "llm"
    /\ gate = "fired"
    /\ status["script"] = "ok"
    /\ status["compliance"] \in Failed
    /\ stage1 = "ok"

\* ---------------------------------------------------------------------
\* Stage-2 fork/join, gate and invocation counts
\* ---------------------------------------------------------------------

Unsettled == {b \in Branches : status[b] \notin Settled}

\* C11: the failure of one Stage-2 branch never cancels a sibling: while the
\* gather is pending, every branch that has not settled can take its own next
\* step whatever the state of the others, a branch awaiting its completion
\* can still succeed, and the join does not resume while a branch is
\* unsettled.
C11_NoSiblingCancellation ==
    /\ pc = "stage2" =>
          \A b \in Branches :
             /\ status[b] = "scheduled" => ENABLED BranchStart(b)
             /\ status[b] = "tpl" => ENABLED BranchTemplate(b)
             /\ status[b] = "llm" => ENABLED (BranchComplete(b) /\ status'[b] = "ok")
    /\ (pc = "stage2" /\ Unsettled # {}) => ~ENABLED Join
    /\ pc \in {"idle", "stage1"} => Unsettled = Branches

\* C11 witness: one branch has raised while its siblings are still in
\* flight.
C11_Witness ==
    /\ pc = "stage2"
    /\ status["script"] \in Failed
    /\ status["compliance"] = "tpl"
    /\ status["communication"] = "scheduled"

\* The gate as the specification words it, on the values the pipeline holds.
ClaimedGate(c, comp) ==
    \/ Len(comp.summary.violations) > 0
    \/ c.requires_deep_dive
    \/ ClaimedSeverity(c, comp) >= threshold

\* C12: the deep dive is attempted exactly when the gate holds for the
\* classification and the compliance value after fallback substitution; a
\* returned result carrying a deep_dive comes from a run in which the gate
\* fired; when the gate does not fire, no deep-dive call is made and
\* deep_dive is absent.
C12_DeepDiveIffGate ==
    /\ gate # "unevaluated" =>
          /\ gate = "fired" <=> ClaimedGate(classification[1], facet["compliance"][1])
          /\ started["deep_dive"] > 0 <=> gate = "fired"
          /\ dd # "idle" <=> gate = "fired"
          /\ status["compliance"] \in Failed =>
                facet["compliance"] = Some(_compliance_fallback)
          /\ status["compliance"] = "ok" => facet["compliance"] = branchRet["compliance"]
    /\ gate # "fired" => (started["deep_dive"] = 0 /\ dd = "idle" /\ deep_dive = None)
    /\ pc = "returned" =>
          /\ result[1].deep_dive = deep_dive
          /\ result[1].deep_dive # None => gate = "fired"
          /\ gate = "skipped" => result[1].deep_dive = None

\* C12 witness: a result with a deep dive was returned after the gate fired
\* on the severity score alone.
C12_Witness ==
    /\ pc = "returned"
    /\ result[1].deep_dive # None
    /\ gate = "fired"
    /\ ~classification[1].requires_deep_dive
    /\ Len(facet["compliance"][1].summary.violations) = 0

\* C12 witness: the gate did not fire and the result was returned without
\* a deep dive.
C12_WitnessSkipped ==
    /\ pc = "returned"
    /\ gate = "skipped"
    /\ result[1].deep_dive = None
    /\ status["compliance"] = "ok"

TotalCalls ==
    started["classification"] + started["script"] + started["compliance"]
        + started["communication"] + started["deep_dive"]

\* C13: in every evaluate_call whose classification succeeds, each of the
\* three Stage-2 evaluations is started exactly once whatever the
\* classification contains; the classification is invoked exactly once and
\* the deep dive at most once, so a completed run has made 4 stage
\* invocations without a deep dive and 5 with one.
C13_InvocationCounts ==
    /\ \A s \in Stages : started[s] <= 1
    /\ pc # "idle" => started["classification"] = 1
    /\ \A b \in Branches : status[b] \notin {"idle", "scheduled"} <=> started[b] = 1
    /\ (stage1 = "ok" /\ GatherReady) => \A b \in Branches : started[b] = 1
    /\ pc = "returned" =>
          /\ started["classification"] = 1
          /\ \A b \in Branches : started[b] = 1
          /\ TotalCalls = IF dd = "idle" THEN 4 ELSE 5
          /\ started["deep_dive"] = IF gate = "fired" THEN 1 ELSE 0

\* C13 witness: a lost call flagged for deep dive, with red flags, ran all
\* five stages once.
C13_Witness ==
    /\ pc = "returned"
    /\ classification[1].call_outcome = "lost"
    /\ classification[1].requires_deep_dive
    /\ Len(classification[1].red_flags) > 0
    /\ TotalCalls = 5

\* C13 witness: a completed call without flags ran four stages.
C13_WitnessFour ==
    /\ pc = "returned"
    /\ classification[1].call_outcome = "completed"
    /\ TotalCalls = 4

\* ---------------------------------------------------------------------
\* Context carried by a propagated Stage-1 failure
\* ---------------------------------------------------------------------

\* Identifiers by which an exception could name the classification stage.
ClassificationStageNames ==
    {"classification", "call_qa_router_classifier", "CallClassification"}

\* C20: a fatal Stage-1 failure that evaluate_call propagates to its caller
\* carries the call id and the failing stage as part of the propagated
\* error.
C20_FatalErrorCarriesContext ==
    (pc = "raised" /\ stage1 \in Failed) =>
        /\ error # None
        /\ request[1].call_id \in error[1].names
        /\ error[1].names \cap ClassificationStageNames # {}

\* The run C20 fails on: the classification's completion exhausted its
\* retries and the RetryError reached the caller as raised.
C20_Reached ==
    /\ pc = "raised"
    /\ stage1 = "llm_failed"
    /\ error = Some([type |-> "RetryError", names |-> {}])
    /\ request[1].call_id = "call_001"

\* ---------------------------------------------------------------------
\* generate_summary
\* ---------------------------------------------------------------------

\* s[:n]
Take(s, n) == SubSeq(s, 1, Min(Len(s), n))

\* [f"Section {section}: {miss}" for miss in eval_data.critical_misses[:n]]
FormatMisses(sec, n) ==
    LET misses == Take(sec.critical_misses, n)
    IN  [i \in 1..Len(misses) |->
            "Section " \o ToString(sec.section) \o ": " \o misses[i]]

\* The loop over script_deviation.sections.items(), in mapping order.
RECURSIVE SectionMisses(_, _)
SectionMisses(secs, n) ==
    IF secs = <<>>
    THEN <<>>
    ELSE FormatMisses(Head(secs), n) \o SectionMisses(Tail(secs), n)

\* finding.issue of the findings whose severity is in sevs, in order; none
\* when there is no deep dive.
FindingIssues(d, sevs) ==
    IF d = None
    THEN <<>>
    ELSE LET fs == SelectSeq(d[1].findings, LAMBDA f : f.severity \in sevs)
         IN  [i \in 1..Len(fs) |-> fs[i].issue]

\* Variant: the three lists are returned as collected.
generate_summary_uncapped(e) ==
    [strengths |-> Take(e.communication.summary.exceeded, 3),
     areas_for_improvement |->
        Take(e.compliance.summary.coaching_needed, 3)
            \o Take(e.communication.summary.missed, 3)
            \o SectionMisses(e.script_deviation.sections, 2)
            \o FindingIssues(e.deep_dive, {"Medium", "Low"}),
     critical_issues |->
        e.compliance.summary.violations
            \o e.classification.red_flags
            \o FindingIssues(e.deep_dive, {"Critical", "High"})]

\* Variant: red flags are collected before the violations.
generate_summary_flags_first(e) ==
    [strengths |-> Take(Take(e.communication.summary.exceeded, 3), 3),
     areas_for_improvement |->
        Take(Take(e.compliance.summary.coaching_needed, 3)
                \o Take(e.communication.summary.missed, 3)
                \o SectionMisses(e.script_deviation.sections, 2)
                \o FindingIssues(e.deep_dive, {"Medium", "Low"}), 4),
     critical_issues |->
        Take(e.classification.red_flags
                \o e.compliance.summary.violations
                \o FindingIssues(e.deep_dive, {"Critical", "High"}), 3)]

\* Variant: three critical misses are taken per section.
generate_summary_three_misses(e) ==
    [strengths |-> Take(Take(e.communication.summary.exceeded, 3), 3),
     areas_for_improvement |->
        Take(Take(e.compliance.summary.coaching_needed, 3)
                \o Take(e.communication.summary.missed, 3)
                \o SectionMisses(e.script_deviation.sections, 3)
                \o FindingIssues(e.deep_dive, {"Medium", "Low"}), 4),
     critical_issues |->
        Take(e.compliance.summary.violations
                \o e.classification.red_flags
                \o FindingIssues(e.deep_dive, {"Critical", "High"}), 3)]

\* Variant: coaching items and missed skills are not cut before they are
\* collected.
generate_summary_late_caps(e) ==
    [strengths |-> Take(e.communication.summary.exceeded, 3),
     areas_for_improvement |->
        Take(e.compliance.summary.coaching_needed
                \o e.communication.summary.missed
                \o SectionMisses(e.script_deviation.sections, 2)
                \o FindingIssues(e.deep_dive, {"Medium", "Low"}), 4),
     critical_issues |->
        Take(e.compliance.summary.violations
                \o e.classification.red_flags
                \o FindingIssues(e.deep_dive, {"Critical", "High"}), 3)]

generate_summary(e) ==
    LET strengths == Take(e.communication.summary.exceeded, 3)
        areas_for_improvement ==
            Take(e.compliance.summary.coaching_needed, 3)
                \o Take(e.communication.summary.missed, 3)
                \o SectionMisses(e.script_deviation.sections, 2)
                \o FindingIssues(e.deep_dive, {"Medium", "Low"})
        critical_issues ==
            e.compliance.summary.violations
                \o e.classification.red_flags
                \o FindingIssues(e.deep_dive, {"Critical", "High"})
    IN  [strengths |-> Take(strengths, 3),
         areas_for_improvement |-> Take(areas_for_improvement, 4),
         critical_issues |-> Take(critical_issues, 3)]

\* n distinct texts of one kind.
Items(kind, n) == [i \in 1..n |-> kind \o " " \o ToString(i)]

SummaryFindings(sevs, n) ==
    {[i \in 1..Len(sv) |-> Finding(Items("Finding", Len(sv))[i], sv[i])] :
        sv \in SeqUpTo(sevs, n)}

SummaryDeepDives(sevs, n) ==
    {None} \cup {Some(DeepDive(fs)) : fs \in SummaryFindings(sevs, n)}

SummarySectionLists ==
    UNION {{[i \in 1..k |-> SectionEvaluation(i, Items("Miss", n[i]))] :
                n \in [1..k -> 0..MaxSumMisses]} : k \in 0..MaxSumSections}

\* Results that load the critical_issues and strengths lists.
CriticalInputs ==
    {EvaluationResult(CallClassification("completed", <<>>, Items("Red flag", rf),
                                         FALSE, FALSE),
                      ScriptAdherence(<<>>),
                      Compliance(<<>>, Items("Violation", v)),
                      Communication(Items("Exceeded", x), <<>>),
                      d) :
        rf \in 0..MaxSumFlags, v \in 0..MaxSumViolations, x \in 0..MaxSumExceeded,
        d \in SummaryDeepDives(Severity, MaxSumFindings)}

\* Results that load the areas_for_improvement list.
AreasInputs ==
    {EvaluationResult(PlainClassification,
                      ScriptAdherence(secs),
                      Compliance(Items("Coaching", c), <<>>),
                      Communication(<<>>, Items("Missed", m)),
                      d) :
        secs \in SummarySectionLists,
        c \in 0..MaxSumCoaching, m \in 0..MaxSumMissed,
        d \in SummaryDeepDives({"Medium", "Critical"}, MaxSumAreaFindings)}

SummaryInputs == CriticalInputs \cup AreasInputs

InitSummary ==
    /\ IdlePipeline
    /\ NoGateCall
    /\ evaluation \in {Some(e) : e \in SummaryInputs}
    /\ final_score = None
    /\ summary = None
    /\ NoApiCall
    /\ NoRetryCall
    /\ NoPairCall
    /\ NoCacheCall
    /\ NoDeepDiveCall

CallGenerateSummary ==
    /\ evaluation # None
    /\ summary = None
    /\ summary' = Some(generate_summary(evaluation[1]))
    /\ UNCHANGED <<evaluation, final_score>>
    /\ UNCHANGED pipelineVars
    /\ UNCHANGED gateVars
    /\ UNCHANGED apiVars
    /\ UNCHANGED retryVars
    /\ UNCHANGED pairVars
    /\ UNCHANGED cacheVars
    /\ UNCHANGED deepDiveVars

NextSummary == CallGenerateSummary

SpecSummary == InitSummary /\ [][NextSummary]_vars

Summarised == summary # None
sumEv == evaluation[1]
SeqRange(s) == {s[i] : i \in DOMAIN s}

\* s is the first n entries of t (all of t when t is shorter).
IsPrefixOfLength(s, t, n) ==
    /\ Len(s) = Min(n, Len(t))
    /\ \A i \in 1..Len(s) : s[i] = t[i]

\* How many entries of s come from the source list src.
CountFrom(s, src) == Cardinality({i \in DOMAIN s : s[i] \in SeqRange(src)})

\* Issue texts of the deep-dive findings of the given severities, as the
\* specification words them; nothing without a deep dive.
ClaimedIssues(e, sevs) ==
    IF e.deep_dive = None
    THEN <<>>
    ELSE LET fs == e.deep_dive[1].findings
             keep == {i \in DOMAIN fs : fs[i].severity \in sevs}
             nth[k \in 0..Len(fs)] ==
                 IF k = 0 THEN 0
                 ELSE CHOOSE i \in keep :
                        Cardinality({j \in keep : j < i}) = k - 1
         IN  [k \in 1..Cardinality(keep) |-> fs[nth[k]].issue]

\* "Section {id}: {miss}" for the first n misses of the first k sections.
RECURSIVE ClaimedSectionPart(_, _, _)
ClaimedSectionPart(secs, k, n) ==
    IF k = 0
    THEN <<>>
    ELSE ClaimedSectionPart(secs, k - 1, n)
            \o [i \in 1..Min(n, Len(secs[k].critical_misses)) |->
                    "Section " \o ToString(secs[k].section) \o ": "
                        \o secs[k].critical_misses[i]]

ClaimedCritical(e) ==
    e.compliance.summary.violations
        \o e.classification.red_flags
        \o ClaimedIssues(e, {"Critical", "High"})

\* C14: for every EvaluationResult generate_summary returns at most 3
\* critical issues, at most 4 areas for improvement and at most 3 strengths.
C14_SummaryCaps ==
    Summarised =>
        /\ Len(summary[1].critical_issues) <= 3
        /\ Len(summary[1].areas_for_improvement) <= 4
        /\ Len(summary[1].strengths) <= 3

\* C14 witness: more violations and red flags than three and more exceeded
\* skills than three went in, three of each came out.
C14_Witness ==
    /\ Summarised
    /\ Len(sumEv.compliance.summary.violations) + Len(sumEv.classification.red_flags) > 3
    /\ Len(sumEv.communication.summary.exceeded) > 3
    /\ Len(summary[1].critical_issues) = 3
    /\ Len(summary[1].strengths) = 3

\* C14 witness: more than four area entries went in, four came out.
C14_WitnessAreas ==
    /\ Summarised
    /\ Len(sumEv.compliance.summary.coaching_needed) = 3
    /\ Len(sumEv.communication.summary.missed) = 3
    /\ Len(summary[1].areas_for_improvement) = 4

\* C15: critical_issues is exactly the first 3 entries of violations ++ red
\* flags ++ issues of the Critical/High deep-dive findings; with 2
\* violations at most 1 red flag appears, with 3 or more violations no red
\* flag and no deep-dive issue appears.
C15_CriticalIssues ==
    Summarised =>
        LET ci == summary[1].critical_issues
            v == sumEv.compliance.summary.violations
        IN  /\ IsPrefixOfLength(ci, ClaimedCritical(sumEv), 3)
            /\ Len(v) = 2 => CountFrom(ci, sumEv.classification.red_flags) <= 1
            /\ Len(v) >= 3 => (ci = SubSeq(v, 1, 3) /\ CountFrom(ci, v) = 3)

\* C15 witness: two violations leave room for one of two red flags.
C15_Witness ==
    /\ Summarised
    /\ Len(sumEv.classification.red_flags) = 2
    /\ sumEv.deep_dive # None
    /\ summary[1].critical_issues = <<"Violation 1", "Violation 2", "Red flag 1">>

\* C15 witness: a High finding follows the red flag, the Medium one is left
\* out.
C15_WitnessFinding ==
    /\ Summarised
    /\ sumEv.deep_dive = Some(DeepDive(<<Finding("Finding 1", "Medium"),
                                       Finding("Finding 2", "High")>>))
    /\ summary[1].critical_issues = <<"Red flag 1", "Finding 2">>

ClaimedAreas(e) ==
    SubSeq(e.compliance.summary.coaching_needed, 1,
           Min(3, Len(e.compliance.summary.coaching_needed)))
        \o SubSeq(e.communication.summary.missed, 1,
                  Min(3, Len(e.communication.summary.missed)))
        \o ClaimedSectionPart(e.script_deviation.sections,
                              Len(e.script_deviation.sections), 2)
        \o ClaimedIssues(e, {"Medium", "Low"})

\* C16: areas_for_improvement is exactly the first 4 entries of (first 3
\* coaching-needed items) ++ (first 3 missed skills) ++ (per section in
\* mapping order its first 2 critical misses as "Section {id}: {miss}") ++
\* (issues of the Medium/Low deep-dive findings); strengths is exactly the
\* first 3 entries of the exceeded list.
C16_AreasAndStrengths ==
    Summarised =>
        /\ IsPrefixOfLength(summary[1].areas_for_improvement, ClaimedAreas(sumEv), 4)
        /\ IsPrefixOfLength(summary[1].strengths, sumEv.communication.summary.exceeded, 3)

\* C16 witness: two coaching items, one missed skill and the first miss of
\* a section with three misses fill the four places.
C16_Witness ==
    /\ Summarised
    /\ Len(sumEv.script_deviation.sections) = 1
    /\ Len(sumEv.script_deviation.sections[1].critical_misses) = 3
    /\ summary[1].areas_for_improvement =
          <<"Coaching 1", "Coaching 2", "Missed 1", "Section 1: Miss 1">>

\* C16 witness: two misses each of two sections, in mapping order.
C16_WitnessSections ==
    /\ Summarised
    /\ Len(sumEv.script_deviation.sections) = 2
    /\ Len(sumEv.script_deviation.sections[1].critical_misses) = 3
    /\ summary[1].areas_for_improvement =
          <<"Section 1: Miss 1", "Section 1: Miss 2",
            "Section 2: Miss 1", "Section 2: Miss 2">>

\* C16 witness: a Medium finding follows the two misses of the section.
C16_WitnessFinding ==
    /\ Summarised
    /\ summary[1].areas_for_improvement =
          <<"Section 1: Miss 1", "Section 1: Miss 2", "Finding 1">>

\* The sources of the three lists joined without any cut.
UncutAreas(e) ==
    e.compliance.summary.coaching_needed
        \o e.communication.summary.missed
        \o ClaimedSectionPart(e.script_deviation.sections,
                              Len(e.script_deviation.sections),
                              MaxSumMisses + 1)
        \o ClaimedIssues(e, {"Medium", "Low"})

PyException(text) == [type |-> "Exception", args |-> <<text>>]

PromptLayerAPIError(status_code, message) ==
    [type |-> "PromptLayerAPIError",
     args |-> <<"PromptLayer API error " \o ToString(status_code) \o ": " \o message>>,
     status_code |-> status_code,
     message |-> message]

PromptLayerError(text) == [type |-> "PromptLayerError", args |-> <<text>>]

ValueError(text) == [type |-> "ValueError", args |-> <<text>>]

\* httpx.RequestError: the request never got a response.
RequestError(text) == [type |-> "RequestError", args |-> <<text>>]

\* tenacity.RetryError(last_attempt): last_attempt is the Future of the last
\* attempt, here the exception that Future holds.
RetryError(last_attempt) ==
    [type |-> "RetryError", args |-> <<last_attempt>>, last_attempt |-> last_attempt]

\* repr of a finished Future that holds an exception (the address differs
\* from run to run and is not modelled).
FutureRepr(e) == "<Future at 0x0 state=finished raised " \o e.type \o ">"

\* str(e): the single argument, except that RetryError overrides __str__ to
\* "RetryError[" + repr(last_attempt) + "]".
Str(e) ==
    IF e.type = "RetryError"
    THEN "RetryError[" \o FutureRepr(e.last_attempt) \o "]"
    ELSE e.args[1]

\* What orchestrator.evaluate_call may raise into a route.
ApiExceptions ==
    {PyException("Orchestrator error"),
     PromptLayerAPIError(404, "Template 'call_qa_router_classifier' not found")}

\* What orchestrator.evaluate_call returns when it returns.
OkEvaluation ==
    EvaluationResult(CallClassification("completed", <<>>, <<"Minor issue">>, FALSE, FALSE),
                     ScriptAdherence(<<>>),
                     Compliance(<<"Improve disclosure timing">>, <<>>),
                     Communication(<<"Empathy">>, <<"Closing skills">>),
                     None)

\* Per request: evaluate_call returns or raises, the store succeeds or fails.
EnvCases ==
    {[raises |-> FALSE, exc |-> None, value |-> Some(OkEvaluation), store_fails |-> b] :
        b \in BOOLEAN}
    \cup {[raises |-> TRUE, exc |-> Some(x), value |-> None, store_fails |-> FALSE] :
            x \in ApiExceptions}

\* talk_time is optional; 60 is the first value that is evaluated.
TalkTimes == {None, Some(59), Some(60)}

CallIdOf(i) == "call_00" \o ToString(i)

\* f"eval_{uuid.uuid4().hex}": a token per coroutine.
CorrelationId(prefix, i) == prefix \o "_" \o ToString(i)

ApiRequests(n) ==
    {[i \in 1..n |-> EvaluateCallRequest(CallIdOf(i), tt[i])] : tt \in [1..n -> TalkTimes]}

\* Variant: a call of exactly 60 seconds is skipped as well.
TooShort_inclusive(req) ==
    LET talk_time == req.transcript.metadata.talk_time
    IN  talk_time # None /\ talk_time[1] <= 60

TooShort(req) ==
    LET talk_time == req.transcript.metadata.talk_time
    IN  talk_time # None /\ talk_time[1] < 60

SkippedCallResponse(req, correlation_id) ==
    [call_id |-> req.call_id,
     correlation_id |-> correlation_id,
     status |-> "skipped",
     reason |-> "talk_time_too_short",
     details |-> [talk_time |-> req.transcript.metadata.talk_time,
                  minimum_required |-> 60]]

EvaluateCallResponse(req, correlation_id, e) ==
    [call_id |-> req.call_id,
     correlation_id |-> correlation_id,
     evaluation |-> e,
     overall_score |-> calculate_overall_score(e),
     summary |-> generate_summary(e)]

HTTPException(status_code, code, message, correlation_id) ==
    [status_code |-> status_code,
     detail |-> [error |-> code, message |-> message, correlation_id |-> correlation_id]]

HTTPOk(body) == [status_code |-> 200, body |-> body]

InitApi ==
    /\ IdlePipeline
    /\ NoGateCall
    /\ NoScoreCall
    /\ NoRetryCall
    /\ NoPairCall
    /\ NoCacheCall
    /\ NoDeepDiveCall
    /\ endpoint \in {"evaluate-call", "evaluate-batch"}
    /\ settings \in {[max_concurrent_evaluations |-> m] : m \in {1, MaxBatch}}
    /\ \E n \in 0..MaxBatch :
          /\ endpoint = "evaluate-call" => n = 1
          /\ calls \in ApiRequests(n)
          /\ env \in [1..n -> EnvCases]
          /\ task = [i \in 1..n |-> "new"]
          /\ results = [i \in 1..n |-> None]
          /\ invoked = [i \in 1..n |-> <<>>]
    /\ finished = <<>>
    /\ response = None

\* Variant: an exception of store_evaluation_result reaches the outer except
\* clause and the request is answered 500.
route_evaluate_call_store_fatal ==
    /\ endpoint = "evaluate-call"
    /\ response = None
    /\ LET req == calls[1]
           correlation_id == CorrelationId("eval", 1)
       IN  response' =
             Some(IF TooShort(req)
                  THEN HTTPOk(SkippedCallResponse(req, correlation_id))
                  ELSE IF env[1].raises \/ env[1].store_fails
                  THEN HTTPException(500, "EVALUATION_FAILED",
                                     "Internal server error during evaluation",
                                     correlation_id)
                  ELSE HTTPOk(EvaluateCallResponse(req, correlation_id, env[1].value[1])))
    /\ invoked' = [invoked EXCEPT ![1] =
            IF TooShort(calls[1]) THEN <<>>
            ELSE IF env[1].raises THEN <<"evaluate_call">>
            ELSE <<"evaluate_call", "calculate_overall_score", "generate_summary",
                   "store_evaluation_result">>]
    /\ task' = [task EXCEPT ![1] = "done"]
    /\ UNCHANGED <<endpoint, calls, settings, env, results, finished>>
    /\ UNCHANGED pipelineVars
    /\ UNCHANGED gateVars
    /\ UNCHANGED scoreVars
    /\ UNCHANGED retryVars
    /\ UNCHANGED pairVars
    /\ UNCHANGED cacheVars
    /\ UNCHANGED deepDiveVars

\* The /evaluate-call handler, from entry to response: the skip test, the
\* evaluation with score and summary, the store whose failure is only
\* logged, and the except clause that answers 500.
route_evaluate_call ==
    /\ endpoint = "evaluate-call"
    /\ response = None
    /\ LET req == calls[1]
           correlation_id == CorrelationId("eval", 1)
       IN  response' =
             Some(IF TooShort(req)
                  THEN HTTPOk(SkippedCallResponse(req, correlation_id))
                  ELSE IF env[1].raises
                  THEN HTTPException(500, "EVALUATION_FAILED",
                                     "Internal server error during evaluation",
                                     correlation_id)
                  ELSE HTTPOk(EvaluateCallResponse(req, correlation_id, env[1].value[1])))
    /\ invoked' = [invoked EXCEPT ![1] =
            IF TooShort(calls[1]) THEN <<>>
            ELSE IF env[1].raises THEN <<"evaluate_call">>
            ELSE <<"evaluate_call", "calculate_overall_score", "generate_summary",
                   "store_evaluation_result">>]
    /\ task' = [task EXCEPT ![1] = "done"]
    /\ UNCHANGED <<endpoint, calls, settings, env, results, finished>>
    /\ UNCHANGED pipelineVars
    /\ UNCHANGED gateVars
    /\ UNCHANGED scoreVars
    /\ UNCHANGED retryVars
    /\ UNCHANGED pairVars
    /\ UNCHANGED cacheVars
    /\ UNCHANGED deepDiveVars

\* Variant: the batch size is not tested against the configured maximum.
evaluate_batch_begin_unlimited ==
    /\ endpoint = "evaluate-batch"
    /\ response = None
    /\ \A i \in DOMAIN task : task[i] = "new"
    /\ IF Len(calls) = 0
       THEN /\ response' = Some(HTTPException(400, "EMPTY_BATCH",
                                              "Batch request cannot be empty",
                                              CorrelationId("batch", 0)))
            /\ UNCHANGED task
       ELSE /\ task' = [i \in DOMAIN task |-> "scheduled"]
            /\ UNCHANGED response
    /\ UNCHANGED <<endpoint, calls, settings, env, results, invoked, finished>>
    /\ UNCHANGED pipelineVars
    /\ UNCHANGED gateVars
    /\ UNCHANGED scoreVars
    /\ UNCHANGED retryVars
    /\ UNCHANGED pairVars
    /\ UNCHANGED cacheVars
    /\ UNCHANGED deepDiveVars

\* /evaluate-batch up to the gather: the two size checks, then one
\* evaluate_single_call coroutine per request.
evaluate_batch_begin ==
    /\ endpoint = "evaluate-batch"
    /\ response = None
    /\ \A i \in DOMAIN task : task[i] = "new"
    /\ IF Len(calls) = 0
       THEN /\ response' = Some(HTTPException(400, "EMPTY_BATCH",
                                              "Batch request cannot be empty",
                                              CorrelationId("batch", 0)))
            /\ UNCHANGED task
       ELSE IF Len(calls) > settings.max_concurrent_evaluations
       THEN /\ response' = Some(HTTPException(400, "BATCH_SIZE_EXCEEDED",
                                              "Batch size " \o ToString(Len(calls))
                                                \o " exceeds maximum allowed "
                                                \o ToString(settings.max_concurrent_evaluations),
                                              CorrelationId("batch", 0)))
            /\ UNCHANGED task
       ELSE /\ task' = [i \in DOMAIN task |-> "scheduled"]
            /\ UNCHANGED response
    /\ UNCHANGED <<endpoint, calls, settings, env, results, invoked, finished>>
    /\ UNCHANGED pipelineVars
    /\ UNCHANGED gateVars
    /\ UNCHANGED scoreVars
    /\ UNCHANGED retryVars
    /\ UNCHANGED pairVars
    /\ UNCHANGED cacheVars
    /\ UNCHANGED deepDiveVars

\* evaluate_single_call up to its first await: the skip test.
evaluate_single_call_begin(i) ==
    /\ endpoint = "evaluate-batch"
    /\ task[i] = "scheduled"
    /\ IF TooShort(calls[i])
       THEN /\ results' = [results EXCEPT ![i] =
                    Some([call_id |-> calls[i].call_id,
                          success |-> TRUE,
                          skipped |-> TRUE,
                          response |-> SkippedCallResponse(calls[i],
                                                           CorrelationId("eval", i))])]
            /\ task' = [task EXCEPT ![i] = "done"]
            /\ UNCHANGED invoked
       ELSE /\ task' = [task EXCEPT ![i] = "evaluating"]
            /\ invoked' = [invoked EXCEPT ![i] = Append(@, "evaluate_call")]
            /\ UNCHANGED results
    /\ finished' = IF task'[i] = "done" THEN Append(finished, i) ELSE finished
    /\ UNCHANGED <<endpoint, calls, settings, env, response>>
    /\ UNCHANGED pipelineVars
    /\ UNCHANGED gateVars
    /\ UNCHANGED scoreVars
    /\ UNCHANGED retryVars
    /\ UNCHANGED pairVars
    /\ UNCHANGED cacheVars
    /\ UNCHANGED deepDiveVars

\* Variant: the exception of evaluate_call leaves evaluate_single_call and
\* the gather, and the batch answers 500.
evaluate_single_call_evaluated_unguarded(i) ==
    /\ endpoint = "evaluate-batch"
    /\ task[i] = "evaluating"
    /\ IF env[i].raises
       THEN /\ response' = Some(HTTPException(500, "BATCH_EVALUATION_FAILED",
                                              "Internal server error during batch evaluation",
                                              CorrelationId("batch", 0)))
            /\ task' = [task EXCEPT ![i] = "done"]
            /\ UNCHANGED invoked
       ELSE /\ task' = [task EXCEPT ![i] = "storing"]
            /\ invoked' = [invoked EXCEPT ![i] =
                    @ \o <<"calculate_overall_score", "generate_summary",
                           "store_evaluation_result">>]
            /\ UNCHANGED response
    /\ finished' = IF task'[i] = "done" THEN Append(finished, i) ELSE finished
    /\ UNCHANGED <<endpoint, calls, settings, env, results>>
    /\ UNCHANGED pipelineVars
    /\ UNCHANGED gateVars
    /\ UNCHANGED scoreVars
    /\ UNCHANGED retryVars
    /\ UNCHANGED pairVars
    /\ UNCHANGED cacheVars
    /\ UNCHANGED deepDiveVars

\* Variant: the store is awaited in the except clause as well.
evaluate_single_call_evaluated_store_on_failure(i) ==
    /\ endpoint = "evaluate-batch"
    /\ task[i] = "evaluating"
    /\ IF env[i].raises
       THEN /\ results' = [results EXCEPT ![i] =
                    Some([call_id |-> calls[i].call_id,
                          success |-> FALSE,
                          error |-> [error |-> "EVALUATION_FAILED",
                                     message |-> Str(env[i].exc[1]),
                                     correlation_id |-> CorrelationId("eval", i)]])]
            /\ task' = [task EXCEPT ![i] = "done"]
            /\ invoked' = [invoked EXCEPT ![i] = Append(@, "store_evaluation_result")]
       ELSE /\ task' = [task EXCEPT ![i] = "storing"]
            /\ invoked' = [invoked EXCEPT ![i] =
                    @ \o <<"calculate_overall_score", "generate_summary",
                           "store_evaluation_result">>]
            /\ UNCHANGED results
    /\ finished' = IF task'[i] = "done" THEN Append(finished, i) ELSE finished
    /\ UNCHANGED <<endpoint, calls, settings, env, response>>
    /\ UNCHANGED pipelineVars
    /\ UNCHANGED gateVars
    /\ UNCHANGED scoreVars
    /\ UNCHANGED retryVars
    /\ UNCHANGED pairVars
    /\ UNCHANGED cacheVars
    /\ UNCHANGED deepDiveVars

\* orchestrator.evaluate_call settles: on an exception the except clause
\* returns the failed entry, otherwise score and summary are computed and the
\* store is awaited.
evaluate_single_call_evaluated(i) ==
    /\ endpoint = "evaluate-batch"
    /\ task[i] = "evaluating"
    /\ IF env[i].raises
       THEN /\ results' = [results EXCEPT ![i] =
                    Some([call_id |-> calls[i].call_id,
                          success |-> FALSE,
                          error |-> [error |-> "EVALUATION_FAILED",
                                     message |-> Str(env[i].exc[1]),
                                     correlation_id |-> CorrelationId("eval", i)]])]
            /\ task' = [task EXCEPT ![i] = "done"]
            /\ UNCHANGED invoked
       ELSE /\ task' = [task EXCEPT ![i] = "storing"]
            /\ invoked' = [invoked EXCEPT ![i] =
                    @ \o <<"calculate_overall_score", "generate_summary",
                           "store_evaluation_result">>]
            /\ UNCHANGED results
    /\ finished' = IF task'[i] = "done" THEN Append(finished, i) ELSE finished
    /\ UNCHANGED <<endpoint, calls, settings, env, response>>
    /\ UNCHANGED pipelineVars
    /\ UNCHANGED gateVars
    /\ UNCHANGED scoreVars
    /\ UNCHANGED retryVars
    /\ UNCHANGED pairVars
    /\ UNCHANGED cacheVars
    /\ UNCHANGED deepDiveVars

\* db_service.store_evaluation_result settles; its failure is logged and
\* the successful entry is returned either way.
evaluate_single_call_stored(i) ==
    /\ endpoint = "evaluate-batch"
    /\ task[i] = "storing"
    /\ results' = [results EXCEPT ![i] =
            Some([call_id |-> calls[i].call_id,
                  success |-> TRUE,
                  response |-> EvaluateCallResponse(calls[i], CorrelationId("eval", i),
                                                    env[i].value[1])])]
    /\ task' = [task EXCEPT ![i] = "done"]
    /\ finished' = IF task'[i] = "done" THEN Append(finished, i) ELSE finished
    /\ UNCHANGED <<endpoint, calls, settings, env, response, invoked>>
    /\ UNCHANGED pipelineVars
    /\ UNCHANGED gateVars
    /\ UNCHANGED scoreVars
    /\ UNCHANGED retryVars
    /\ UNCHANGED pairVars
    /\ UNCHANGED cacheVars
    /\ UNCHANGED deepDiveVars

\* Variant: the entries are listed in the order the coroutines returned.
evaluate_batch_respond_as_completed ==
    /\ endpoint = "evaluate-batch"
    /\ response = None
    /\ Len(calls) > 0
    /\ \A i \in DOMAIN task : task[i] = "done"
    /\ LET processed_results == [k \in DOMAIN finished |-> results[finished[k]][1]]
           successful_count ==
               Cardinality({i \in DOMAIN processed_results : processed_results[i].success})
           failed_count == Len(processed_results) - successful_count
       IN  response' =
             Some(HTTPOk([batch_correlation_id |-> CorrelationId("batch", 0),
                          results |-> processed_results,
                          summary |-> [total |-> Len(calls),
                                       successful |-> successful_count,
                                       failed |-> failed_count,
                                       success_rate |-> [num |-> successful_count,
                                                         den |-> Len(calls)]]]))
    /\ UNCHANGED <<endpoint, calls, settings, env, task, results, invoked, finished>>
    /\ UNCHANGED pipelineVars
    /\ UNCHANGED gateVars
    /\ UNCHANGED scoreVars
    /\ UNCHANGED retryVars
    /\ UNCHANGED pairVars
    /\ UNCHANGED cacheVars
    /\ UNCHANGED deepDiveVars

\* The gather has returned: the results are taken in request order and the
\* batch statistics are computed.
evaluate_batch_respond ==
    /\ endpoint = "evaluate-batch"
    /\ response = None
    /\ Len(calls) > 0
    /\ \A i \in DOMAIN task : task[i] = "done"
    /\ LET processed_results == [i \in DOMAIN results |-> results[i][1]]
           successful_count ==
               Cardinality({i \in DOMAIN processed_results : processed_results[i].success})
           failed_count == Len(processed_results) - successful_count
       IN  response' =
             Some(HTTPOk([batch_correlation_id |-> CorrelationId("batch", 0),
                          results |-> processed_results,
                          summary |-> [total |-> Len(calls),
                                       successful |-> successful_count,
                                       failed |-> failed_count,
                                       success_rate |-> [num |-> successful_count,
                                                         den |-> Len(calls)]]]))
    /\ UNCHANGED <<endpoint, calls, settings, env, task, results, invoked, finished>>
    /\ UNCHANGED pipelineVars
    /\ UNCHANGED gateVars
    /\ UNCHANGED scoreVars
    /\ UNCHANGED retryVars
    /\ UNCHANGED pairVars
    /\ UNCHANGED cacheVars
    /\ UNCHANGED deepDiveVars

NextApi ==
    \/ route_evaluate_call
    \/ evaluate_batch_begin
    \/ \E i \in DOMAIN calls : evaluate_single_call_begin(i)
    \/ \E i \in DOMAIN calls : evaluate_single_call_evaluated(i)
    \/ \E i \in DOMAIN calls : evaluate_single_call_stored(i)
    \/ evaluate_batch_respond

SpecApi == InitApi /\ [][NextApi]_vars

\* ---------------------------------------------------------------------
\* Batch isolation and the user-facing error
\* ---------------------------------------------------------------------

Responded == response # None

\* The batch passed the two size checks.
BatchAccepted ==
    /\ endpoint = "evaluate-batch"
    /\ Len(calls) > 0
    /\ Len(calls) <= settings.max_concurrent_evaluations

\* Requests of the batch whose evaluate_call raises.
FailingRequests == {i \in DOMAIN calls : ~TooShort(calls[i]) /\ env[i].raises}

\* The entry request i yields from its own request and its own evaluation,
\* whatever else is in the batch.
AloneEntry(i) ==
    IF TooShort(calls[i])
    THEN [call_id |-> calls[i].call_id, success |-> TRUE, skipped |-> TRUE,
          response |-> SkippedCallResponse(calls[i], CorrelationId("eval", i))]
    ELSE [call_id |-> calls[i].call_id, success |-> TRUE,
          response |-> EvaluateCallResponse(calls[i], CorrelationId("eval", i),
                                            env[i].value[1])]

\* C18: in evaluate_batch a request whose evaluate_call raises never aborts
\* the batch and never changes another request's outcome: the coroutines of
\* the other requests keep running, the batch response is produced, the
\* failed request is its own entry with success = false, every other entry
\* is what its request yields alone, and successful + failed = total =
\* number of requests.
C18_BatchIsolation ==
    /\ BatchAccepted =>
          \A j \in DOMAIN calls :
             /\ task[j] = "scheduled" => ENABLED evaluate_single_call_begin(j)
             /\ task[j] = "evaluating" => ENABLED evaluate_single_call_evaluated(j)
             /\ task[j] = "storing" => ENABLED evaluate_single_call_stored(j)
    /\ (BatchAccepted /\ ~Responded /\ \A j \in DOMAIN calls : task[j] = "done")
          => ENABLED evaluate_batch_respond
    /\ (BatchAccepted /\ Responded) =>
          /\ response[1].status_code = 200
          /\ Len(response[1].body.results) = Len(calls)
          /\ \A i \in DOMAIN calls :
                LET entry == response[1].body.results[i]
                IN  IF i \in FailingRequests
                    THEN /\ entry.success = FALSE
                         /\ entry.call_id = calls[i].call_id
                         /\ entry.error.error = "EVALUATION_FAILED"
                    ELSE entry = AloneEntry(i)
          /\ response[1].body.summary.total = Len(calls)
          /\ response[1].body.summary.failed = Cardinality(FailingRequests)
          /\ response[1].body.summary.successful + response[1].body.summary.failed
                = response[1].body.summary.total

\* C18 witness: the first request failed, the second was evaluated and
\* reported as it would be alone.
C18_Witness ==
    /\ BatchAccepted
    /\ Responded
    /\ Len(calls) = 2
    /\ FailingRequests = {1}
    /\ ~TooShort(calls[2])
    /\ response[1].body.results[1].success = FALSE
    /\ response[1].body.results[2].success = TRUE
    /\ response[1].body.summary = [total |-> 2, successful |-> 1, failed |-> 1,
                                   success_rate |-> [num |-> 1, den |-> 2]]

\* C18 witness: a request failed while another coroutine was still
\* awaiting its evaluation.
C18_WitnessInFlight ==
    /\ BatchAccepted
    /\ Len(calls) = 2
    /\ task[1] = "done"
    /\ results[1] # None
    /\ results[1][1].success = FALSE
    /\ task[2] = "evaluating"

\* Texts of the exceptions evaluate_call may raise.
ExceptionTexts == {Str(x) : x \in ApiExceptions}

\* User-facing messages of the fatal failures in the response.
FailureMessages ==
    IF ~Responded THEN {}
    ELSE IF response[1].status_code = 500 THEN {response[1].detail.message}
    ELSE IF endpoint = "evaluate-batch" /\ response[1].status_code = 200
    THEN {response[1].body.results[i].error.message : i \in FailingRequests}
    ELSE {}

\* C19: a fatal failure is reported to the user, by /evaluate-call and in
\* each failed entry of /evaluate-batch, as EVALUATION_FAILED with a
\* correlation id and a message that does not depend on the internal
\* exception: the messages of failures that differ only in the exception
\* text are the same, and none is the exception's text.
C19_FailureMessageGeneric ==
    Responded =>
        /\ (endpoint = "evaluate-call" /\ response[1].status_code = 500) =>
              /\ response[1].detail.error = "EVALUATION_FAILED"
              /\ response[1].detail.correlation_id = CorrelationId("eval", 1)
        /\ (BatchAccepted /\ response[1].status_code = 200) =>
              \A i \in FailingRequests :
                 /\ response[1].body.results[i].error.error = "EVALUATION_FAILED"
                 /\ response[1].body.results[i].error.correlation_id
                       = CorrelationId("eval", i)
        /\ Cardinality(FailureMessages) <= 1
        /\ FailureMessages \cap ExceptionTexts = {}

\* The run C19 fails on: a batch entry whose message is the text of the
\* exception its evaluate_call raised.
C19_Reached ==
    /\ BatchAccepted
    /\ Responded
    /\ env[1].raises
    /\ env[1].exc = Some(PyException("Orchestrator error"))
    /\ response[1].body.results[1].success = FALSE
    /\ response[1].body.results[1].error.message = "Orchestrator error"

\* The single-call route answers the same failure with a fixed message.
C19_ReachedSingle ==
    /\ endpoint = "evaluate-call"
    /\ Responded
    /\ env[1].raises
    /\ response[1].status_code = 500
    /\ response[1].detail.message = "Internal server error during evaluation"

\* ---------------------------------------------------------------------
\* Fallback markers
\* ---------------------------------------------------------------------

\* The texts by which the fallbacks ask for a manual review.
ManualReviewMarkers ==
    {"Evaluation failed - manual review required",
     "Manual review required due to evaluation failure",
     "Manual evaluation required due to system failure"}

\* The texts held by the list fields of a Stage-2 value of branch b.
FieldTexts(b, v) ==
    CASE b = "script" ->
            UNION {{v.sections[i].critical_misses[j] :
                        j \in DOMAIN v.sections[i].critical_misses} :
                            i \in DOMAIN v.sections}
      [] b = "compliance" ->
            {v.summary.coaching_needed[i] : i \in DOMAIN v.summary.coaching_needed}
                \cup {v.summary.violations[i] : i \in DOMAIN v.summary.violations}
      [] b = "communication" ->
            {v.summary.exceeded[i] : i \in DOMAIN v.summary.exceeded}
                \cup {v.summary.missed[i] : i \in DOMAIN v.summary.missed}

\* C21: for each of the three Stage-2 shapes the fallback substituted for a
\* failed branch carries a manual-review marker in a field of that shape,
\* so a returned result's facet built from a fallback differs from every
\* facet of a branch that succeeded, also one with an empty evaluation.
C21_FallbackCarriesMarker ==
    pc = "returned" =>
        \A b \in Branches :
           /\ status[b] \in Failed =>
                 FieldTexts(b, ResultFacet(b)) \cap ManualReviewMarkers # {}
           /\ status[b] = "ok" => ResultFacet(b) # StandIn(b)

\* The run C21 fails on: the script-adherence branch raised and the result
\* holds an empty ScriptAdherence without any marker.
C21_Reached ==
    /\ pc = "returned"
    /\ status["script"] \in Failed
    /\ status["compliance"] = "ok"
    /\ status["communication"] = "ok"
    /\ result[1].script_deviation = ScriptAdherence(<<>>)

\* The same facet from a script-adherence branch that succeeded with no
\* sections.
C21_ReachedEmptySuccess ==
    /\ pc = "returned"
    /\ status["script"] = "ok"
    /\ result[1].script_deviation = ScriptAdherence(<<>>)

\* ---------------------------------------------------------------------
\* Short calls and the persistence layer
\* ---------------------------------------------------------------------

\* The services the handler of request i has called.
Called(i) == {invoked[i][k] : k \in DOMAIN invoked[i]}

Services ==
    {"evaluate_call", "calculate_overall_score", "generate_summary",
     "store_evaluation_result"}

\* A request whose talk time is given and below 60 seconds.
ClaimedShort(req) ==
    /\ req.transcript.metadata.talk_time # None
    /\ req.transcript.metadata.talk_time[1] < 60

\* The skipped answer of request i.
ClaimedSkipped(i, body) ==
    /\ body.status = "skipped"
    /\ body.reason = "talk_time_too_short"
    /\ body.call_id = calls[i].call_id

C22_WitnessSingle ==
    /\ endpoint = "evaluate-call" /\ Responded
    /\ calls[1].transcript.metadata.talk_time = Some(59)
    /\ response[1].body.status = "skipped"

\* The single endpoint has evaluated a call without talk time.
C22_WitnessNoTalkTime ==
    /\ endpoint = "evaluate-call" /\ Responded
    /\ calls[1].transcript.metadata.talk_time = None
    /\ Called(1) = Services

\* What request i is answered when its evaluation succeeds.
ClaimedSuccess(i) ==
    EvaluateCallResponse(calls[i], CorrelationId("eval", i), env[i].value[1])

\* C23: a failure of the persistence layer after the evaluation result has
\* been computed does not fail the request: the endpoint still answers with
\* the successful response, carrying the same evaluation, overall score and
\* summary as when the store succeeds.
C23_StoreFailureTolerated ==
    \A i \in DOMAIN calls :
       (~ClaimedShort(calls[i]) /\ ~env[i].raises) =>
          /\ (endpoint = "evaluate-call" /\ Responded) =>
                /\ response[1] = HTTPOk(ClaimedSuccess(i))
                /\ response[1].body.evaluation = env[i].value[1]
                /\ response[1].body.overall_score = calculate_overall_score(env[i].value[1])
                /\ response[1].body.summary = generate_summary(env[i].value[1])
          /\ (endpoint = "evaluate-batch" /\ results[i] # None) =>
                /\ results[i][1].success
                /\ results[i][1].response = ClaimedSuccess(i)

\* The single endpoint has answered a request whose store failed.
C23_Witness ==
    /\ endpoint = "evaluate-call" /\ Responded
    /\ ~ClaimedShort(calls[1]) /\ ~env[1].raises /\ env[1].store_fails
    /\ "store_evaluation_result" \in Called(1)
    /\ response[1].status_code = 200

\* A batch entry has been produced for a request whose store failed.
C23_WitnessBatch ==
    /\ endpoint = "evaluate-batch"
    /\ \E i \in DOMAIN calls :
          /\ ~ClaimedShort(calls[i]) /\ ~env[i].raises /\ env[i].store_fails
          /\ "store_evaluation_result" \in Called(i)
          /\ results[i] # None /\ results[i][1].success

\* ---------------------------------------------------------------------
\* The retried calls: execute_prompt_template, get_structured_response,
\* get_structured_response_from_llm_kwargs
\* ---------------------------------------------------------------------

\* How many outcomes the log of one call may hold before the model stops.
MaxAttemptLog == 4

Returned(v) == [raised |-> FALSE, value |-> v]
Raised(e) == [raised |-> TRUE, exc |-> e]

\* Bodies a PromptLayer response may carry: unparsable, an error object, or
\* a rendered template.
TemplateBodies ==
    {None,
     Some([error |-> "Rate limit exceeded"]),
     Some([llm_kwargs |-> {"model", "messages"}])}

\* What `await self.client.post(endpoint, json=payload)` may do.
PostOutcomes ==
    {[kind |-> "response", status_code |-> sc, json |-> j] :
        sc \in {200, 404, 500}, j \in TemplateBodies}
    \cup {[kind |-> "raise", exc |-> RequestError("Connection failed")],
          [kind |-> "raise", exc |-> PyException("Event loop is closed")]}

\* What `await self.client.chat.completions.create(...)` may do.
CreateOutcomes ==
    {[kind |-> "response", value |-> c] :
        c \in {x \in LLMClassifications : x.call_outcome = "completed"}}
    \cup {[kind |-> "raise", exc |-> PyException("API Error")],
          [kind |-> "raise", exc |-> [type |-> "TimeoutError", args |-> <<"Request timed out.">>]]}

\* One run of the body of execute_prompt_template on what the POST did.
execute_prompt_template_body(prompt_name, post) ==
    IF post.kind = "raise"
    THEN IF post.exc.type = "RequestError"
         THEN Raised(PromptLayerAPIError(0, "Network error: " \o Str(post.exc)))
         ELSE Raised(PromptLayerError("Unexpected error: " \o Str(post.exc)))
    ELSE IF post.status_code = 404
    THEN Raised(PromptLayerAPIError(404, "Template '" \o prompt_name \o "' not found"))
    ELSE IF post.status_code \notin 200..299
    THEN LET error_data == IF post.json = None THEN [raw_response |-> "text"]
                           ELSE post.json[1]
         IN  Raised(PromptLayerAPIError(post.status_code,
                     "Failed to execute template: " \o
                        (IF "error" \in DOMAIN error_data THEN error_data.error
                         ELSE "Unknown error")))
    ELSE IF post.json = None
    THEN Raised(PromptLayerError("Unexpected error: Expecting value: line 1 column 1 (char 0)"))
    ELSE Returned(post.json[1])

\* One run of the body of get_structured_response on what create() did.
get_structured_response_body(create) ==
    IF create.kind = "raise" THEN Raised(create.exc) ELSE Returned(create.value)

\* The fields get_structured_response_from_llm_kwargs requires, in the order
\* it tests them.
required_fields == <<"model", "messages">>

\* One run of the body of get_structured_response_from_llm_kwargs: the
\* descriptor is validated first, and only a valid one is sent upstream.
get_structured_response_from_llm_kwargs_body(llm_kwargs, create) ==
    LET missing == {i \in DOMAIN required_fields : required_fields[i] \notin llm_kwargs}
    IN  IF missing # {}
        THEN Raised(ValueError("llm_kwargs missing required field: " \o
                        required_fields[CHOOSE i \in missing : \A j \in missing : i <= j]))
        ELSE IF create.kind = "raise" THEN Raised(create.exc)
        ELSE Returned(create.value)

\* Variant: the stop condition is never met.
Retrying_no_stop(max_attempt_number, reraise, attempt, outcome) ==
    IF ~outcome.raised
    THEN [done |-> TRUE, result |-> outcome]
    ELSE [done |-> FALSE]

\* Variant: the last attempt's exception is always wrapped in RetryError.
Retrying_wrapped(max_attempt_number, reraise, attempt, outcome) ==
    IF ~outcome.raised
    THEN [done |-> TRUE, result |-> outcome]
    ELSE IF attempt >= max_attempt_number
    THEN [done |-> TRUE, result |-> Raised(RetryError(outcome.exc))]
    ELSE [done |-> FALSE]

\* tenacity's decision after attempt number `attempt` has ended with
\* `outcome`, under stop_after_attempt(max_attempt_number) and a retry
\* condition that holds for every Exception: return the value, or stop and
\* raise (the attempt's own exception with reraise=True, RetryError
\* otherwise), or sleep and run the body again.
Retrying(max_attempt_number, reraise, attempt, outcome) ==
    IF ~outcome.raised
    THEN [done |-> TRUE, result |-> outcome]
    ELSE IF attempt >= max_attempt_number
    THEN [done |-> TRUE,
          result |-> Raised(IF reraise THEN outcome.exc ELSE RetryError(outcome.exc))]
    ELSE [done |-> FALSE]

RetryCalls ==
    {[fn |-> "execute_prompt_template", prompt_name |-> n] :
        n \in {"call_qa_router_classifier", "call_qa_compliance"}}
    \cup {[fn |-> "get_structured_response"]}
    \cup {[fn |-> "get_structured_response_from_llm_kwargs", llm_kwargs |-> k] :
            k \in {{"model", "messages"}, {"model"}, {}}}

InitRetry ==
    /\ retry_call \in {Some(c) : c \in RetryCalls}
    /\ attempt_number = 0
    /\ attempts = <<>>
    /\ upstream_calls = 0
    /\ retry_result = None
    /\ IdlePipeline
    /\ NoGateCall
    /\ NoScoreCall
    /\ NoApiCall
    /\ NoPairCall
    /\ NoCacheCall
    /\ NoDeepDiveCall

\* The wrapper records the attempt (what was sent upstream, if anything, and
\* how the body ended) and acts on tenacity's decision.
AfterAttempt(sent, outcome, do) ==
    /\ attempt_number' = attempt_number + 1
    /\ attempts' = Append(attempts, [upstream |-> sent, outcome |-> outcome])
    /\ retry_result' = IF do.done THEN Some(do.result) ELSE None

\* One attempt of execute_prompt_template under
\* @retry(stop=stop_after_attempt(3), wait=..., reraise=True).
execute_prompt_template_attempt ==
    /\ retry_call # None /\ retry_call[1].fn = "execute_prompt_template"
    /\ retry_result = None
    /\ Len(attempts) < MaxAttemptLog
    /\ \E post \in PostOutcomes :
          LET outcome == execute_prompt_template_body(retry_call[1].prompt_name, post)
          IN  AfterAttempt(Some(post), outcome,
                           Retrying(3, TRUE, attempt_number + 1, outcome))
    /\ upstream_calls' = upstream_calls + 1
    /\ UNCHANGED retry_call
    /\ UNCHANGED pipelineVars
    /\ UNCHANGED gateVars
    /\ UNCHANGED scoreVars
    /\ UNCHANGED apiVars
    /\ UNCHANGED pairVars
    /\ UNCHANGED cacheVars
    /\ UNCHANGED deepDiveVars

\* One attempt of get_structured_response under
\* @retry(stop=stop_after_attempt(3), wait=..., retry=retry_if_exception_type((Exception,))).
get_structured_response_attempt ==
    /\ retry_call # None /\ retry_call[1].fn = "get_structured_response"
    /\ retry_result = None
    /\ Len(attempts) < MaxAttemptLog
    /\ \E create \in CreateOutcomes :
          LET outcome == get_structured_response_body(create)
          IN  AfterAttempt(Some(create), outcome,
                           Retrying(3, FALSE, attempt_number + 1, outcome))
    /\ upstream_calls' = upstream_calls + 1
    /\ UNCHANGED retry_call
    /\ UNCHANGED pipelineVars
    /\ UNCHANGED gateVars
    /\ UNCHANGED scoreVars
    /\ UNCHANGED apiVars
    /\ UNCHANGED pairVars
    /\ UNCHANGED cacheVars
    /\ UNCHANGED deepDiveVars

\* One attempt of get_structured_response_from_llm_kwargs under the same
\* decorator; a descriptor that fails validation is not sent upstream.
get_structured_response_from_llm_kwargs_attempt ==
    /\ retry_call # None /\ retry_call[1].fn = "get_structured_response_from_llm_kwargs"
    /\ retry_result = None
    /\ Len(attempts) < MaxAttemptLog
    /\ LET valid == \A i \in DOMAIN required_fields :
                        required_fields[i] \in retry_call[1].llm_kwargs
       IN  /\ \E create \in CreateOutcomes :
                 LET outcome == get_structured_response_from_llm_kwargs_body(
                                    retry_call[1].llm_kwargs, create)
                 IN  AfterAttempt(IF valid THEN Some(create) ELSE None, outcome,
                                  Retrying(3, FALSE, attempt_number + 1, outcome))
           /\ upstream_calls' = IF valid THEN upstream_calls + 1 ELSE upstream_calls
    /\ UNCHANGED retry_call
    /\ UNCHANGED pipelineVars
    /\ UNCHANGED gateVars
    /\ UNCHANGED scoreVars
    /\ UNCHANGED apiVars
    /\ UNCHANGED pairVars
    /\ UNCHANGED cacheVars
    /\ UNCHANGED deepDiveVars

NextRetry ==
    \/ execute_prompt_template_attempt
    \/ get_structured_response_attempt
    \/ get_structured_response_from_llm_kwargs_attempt

SpecRetry == InitRetry /\ [][NextRetry]_vars

\* The decorated function under call.
Calling(fn) == retry_call # None /\ retry_call[1].fn = fn

AllFailed(log) == \A k \in DOMAIN log : log[k].outcome.raised

\* C24: one call of get_structured_response_from_llm_kwargs makes at most 3
\* attempts at the upstream completion: it returns the value of the first
\* attempt that succeeds and makes no attempt after it, and when all 3
\* attempts fail it raises to its caller without a 4th attempt.
C24_AtMostThreeAttempts ==
    Calling("get_structured_response_from_llm_kwargs") =>
       /\ attempt_number <= 3
       /\ Len(attempts) = attempt_number
       /\ upstream_calls <= 3
       /\ upstream_calls = Cardinality({k \in DOMAIN attempts : attempts[k].upstream # None})
       /\ AllFailed(SubSeq(attempts, 1, Len(attempts) - 1))
       /\ retry_result = None => AllFailed(attempts) /\ attempt_number < 3
       /\ retry_result # None =>
             IF retry_result[1].raised
             THEN attempt_number = 3 /\ AllFailed(attempts)
             ELSE /\ attempts[attempt_number].upstream # None
                  /\ attempts[attempt_number].upstream[1].kind = "response"
                  /\ retry_result[1].value = attempts[attempt_number].upstream[1].value

\* Three failed completions have been surfaced as a failure.
C24_Witness ==
    /\ Calling("get_structured_response_from_llm_kwargs")
    /\ retry_result # None /\ retry_result[1].raised
    /\ upstream_calls = 3

\* The second completion succeeded and its value was returned.
C24_WitnessSecond ==
    /\ Calling("get_structured_response_from_llm_kwargs")
    /\ retry_result # None /\ ~retry_result[1].raised
    /\ upstream_calls = 2

\* C27: one call of execute_prompt_template makes at most 3 attempts: it
\* returns the response of the first successful attempt, and after 3 failed
\* attempts it raises the last attempt's own error, a network failure as
\* PromptLayerAPIError with status 0 and an unknown template as
\* PromptLayerAPIError with status 404.
C27_TemplateRetries ==
    Calling("execute_prompt_template") =>
       /\ attempt_number <= 3
       /\ Len(attempts) = attempt_number
       /\ upstream_calls = attempt_number
       /\ AllFailed(SubSeq(attempts, 1, Len(attempts) - 1))
       /\ retry_result = None => AllFailed(attempts) /\ attempt_number < 3
       /\ retry_result # None =>
             LET last == attempts[attempt_number]
             IN  IF retry_result[1].raised
                 THEN /\ attempt_number = 3
                      /\ AllFailed(attempts)
                      /\ retry_result[1].exc = last.outcome.exc
                      /\ (last.upstream[1].kind = "raise"
                            /\ last.upstream[1].exc.type = "RequestError") =>
                            /\ retry_result[1].exc.type = "PromptLayerAPIError"
                            /\ retry_result[1].exc.status_code = 0
                      /\ (last.upstream[1].kind = "response"
                            /\ last.upstream[1].status_code = 404) =>
                            /\ retry_result[1].exc.type = "PromptLayerAPIError"
                            /\ retry_result[1].exc.status_code = 404
                 ELSE /\ last.upstream[1].kind = "response"
                      /\ last.upstream[1].status_code = 200
                      /\ retry_result[1].value = last.upstream[1].json[1]

\* Two server errors and then a network failure: status 0 is raised.
C27_Witness ==
    /\ Calling("execute_prompt_template")
    /\ retry_result # None /\ retry_result[1].raised
    /\ attempts[1].upstream[1].kind = "response"
    /\ attempts[3].upstream[1].kind = "raise"
    /\ retry_result[1].exc.type = "PromptLayerAPIError"
    /\ retry_result[1].exc.status_code = 0

\* The template is unknown at all three attempts: status 404 is raised.
C27_WitnessNotFound ==
    /\ Calling("execute_prompt_template")
    /\ retry_result # None /\ retry_result[1].raised
    /\ retry_result[1].exc.type = "PromptLayerAPIError"
    /\ retry_result[1].exc.status_code = 404

\* The third attempt succeeded and its response was returned.
C27_WitnessThird ==
    /\ Calling("execute_prompt_template")
    /\ retry_result # None /\ ~retry_result[1].raised
    /\ attempt_number = 3

\* Texts that may stand before and after a message inside a longer text.
Affixes ==
    {"", "RetryError[", "]", "Unexpected error: ", "Network error: ",
     "PromptLayer API error 0: Network error: ",
     "<Future at 0x0 state=finished raised ", ">"}

\* `msg in text`
Contains(text, msg) ==
    \E before \in Affixes, after \in Affixes : text = before \o msg \o after

\* C28: when every attempt of get_structured_response fails with an upstream
\* error, the exception that reaches the caller carries the underlying
\* failure's message: its text contains the text of the upstream error
\* ("API Error" surfaces as an error whose text contains "API Error").
C28_FailureCarriesMessage ==
    (/\ Calling("get_structured_response")
     /\ retry_result # None
     /\ retry_result[1].raised) =>
        Contains(Str(retry_result[1].exc), Str(attempts[attempt_number].outcome.exc))

\* Three attempts failed with "API Error" and the call has raised.
C28_Reached ==
    /\ Calling("get_structured_response")
    /\ retry_result # None /\ retry_result[1].raised
    /\ \A k \in 1..3 : Str(attempts[k].outcome.exc) = "API Error"

\* ---------------------------------------------------------------------
\* Two evaluate_call invocations on one orchestrator
\* ---------------------------------------------------------------------

Invocations == {1, 2}

\* An external-call chain of a stage (template request, then completion)
\* ends with a value, or fails at the template or at the completion.
Ok(v) == [at |-> "ok", value |-> Some(v)]
FailsAt(where) == [at |-> where, value |-> None]

\* What the external calls of one invocation do, stage by stage; at most one
\* stage of an invocation fails.
ExtCases ==
    LET plain == CallClassification("completed", <<>>, <<>>, FALSE, FALSE)
        flagged == CallClassification("incomplete", <<>>, <<"Customer complaint">>, TRUE, FALSE)
        all == [classification : {Ok(plain), Ok(flagged), FailsAt("tpl")},
                script : {Ok(ScriptAdherence(<<>>)), FailsAt("tpl")},
                compliance : {Ok(Compliance(<<>>, <<>>)), FailsAt("llm")},
                communication : {Ok(Communication(<<"Empathy">>, <<>>))},
                deep_dive : {Ok(DeepDive(<<Finding("Issue", "High")>>)), FailsAt("llm")}]
    IN  {e \in all : Cardinality({s \in Stages : e[s].at # "ok"}) <= 1}

\* The locals of an evaluate_call that has not run yet.
NewFrame(i) ==
    [request |-> EvaluateCallRequest(CallIdOf(i), Some(240)),
     pc |-> "idle",
     call |-> [s \in Stages |-> "idle"],
     classification |-> None,
     gathered |-> [b \in Branches |-> None],
     returned |-> None,
     raised |-> None]

InitPair ==
    /\ orchestrator = [initialized |-> FALSE,
                       llm_client |-> "StructuredLLMClient",
                       prompt_client |-> "PromptLayerClient",
                       fallback_manager |-> "FallbackManager"]
    /\ frames = [i \in Invocations |-> NewFrame(i)]
    /\ ext \in [Invocations -> ExtCases]
    /\ IdlePipeline
    /\ NoGateCall
    /\ NoScoreCall
    /\ NoApiCall
    /\ NoRetryCall
    /\ NoCacheCall
    /\ NoDeepDiveCall

\* Invocation i enters evaluate_call: initialize() on an orchestrator that is
\* not initialized (it has no suspension point), then _classify_call up to
\* its template request.
evaluate_call_enter(i) ==
    /\ frames[i].pc = "idle"
    /\ orchestrator' = [orchestrator EXCEPT !.initialized = TRUE]
    /\ frames' = [frames EXCEPT ![i].pc = "stage1",
                                ![i].call["classification"] = "tpl"]
    /\ UNCHANGED ext
    /\ UNCHANGED pipelineVars
    /\ UNCHANGED gateVars
    /\ UNCHANGED scoreVars
    /\ UNCHANGED apiVars
    /\ UNCHANGED retryVars
    /\ UNCHANGED cacheVars
    /\ UNCHANGED deepDiveVars

\* What the frame of invocation i becomes when the awaited call of stage s
\* settles: the chain moves on to the completion, or the stage coroutine
\* ends and the code after its await runs.
AfterSettle(f, e, s) ==
    IF f.call[s] = "tpl" /\ e[s].at # "tpl"
    THEN [f EXCEPT !.call[s] = "llm"]
    ELSE IF s = "classification"
    THEN IF e[s].at = "ok"
         THEN [f EXCEPT !.call = [x \in Stages |-> IF x \in Branches THEN "tpl"
                                                   ELSE IF x = s THEN "ok" ELSE @[x]],
                        !.classification = e[s].value,
                        !.pc = "stage2"]
         ELSE [f EXCEPT !.call[s] = "failed", !.pc = "raised",
                        !.raised = Some(e[s].at)]
    ELSE IF s \in Branches
    THEN [f EXCEPT !.call[s] = IF e[s].at = "ok" THEN "ok" ELSE "failed",
                   !.gathered[s] = e[s].value]
    ELSE [f EXCEPT !.call[s] = IF e[s].at = "ok" THEN "ok" ELSE "failed",
                   !.pc = "returned",
                   !.returned = Some(EvaluationResult(
                        f.classification[1], f.gathered["script"][1],
                        f.gathered["compliance"][1], f.gathered["communication"][1],
                        e[s].value))]

\* Variant: the classification is kept on the orchestrator, so every
\* invocation under way sees the one that arrived last.
evaluate_call_settle_shared(i, s) ==
    /\ frames[i].call[s] \in {"tpl", "llm"}
    /\ frames' = [j \in Invocations |->
                    IF j = i THEN AfterSettle(frames[i], ext[i], s)
                    ELSE IF s = "classification" /\ frames[i].call[s] = "llm"
                    THEN [frames[j] EXCEPT !.classification = ext[i][s].value]
                    ELSE frames[j]]
    /\ UNCHANGED <<orchestrator, ext>>
    /\ UNCHANGED pipelineVars
    /\ UNCHANGED gateVars
    /\ UNCHANGED scoreVars
    /\ UNCHANGED apiVars
    /\ UNCHANGED retryVars
    /\ UNCHANGED cacheVars
    /\ UNCHANGED deepDiveVars

\* An awaited external call of invocation i settles.
evaluate_call_settle(i, s) ==
    /\ frames[i].call[s] \in {"tpl", "llm"}
    /\ frames' = [frames EXCEPT ![i] = AfterSettle(frames[i], ext[i], s)]
    /\ UNCHANGED <<orchestrator, ext>>
    /\ UNCHANGED pipelineVars
    /\ UNCHANGED gateVars
    /\ UNCHANGED scoreVars
    /\ UNCHANGED apiVars
    /\ UNCHANGED retryVars
    /\ UNCHANGED cacheVars
    /\ UNCHANGED deepDiveVars

\* The gather of invocation i returns: fallbacks, gate, and either the deep
\* dive is started or the result is returned.
evaluate_call_join(i) ==
    /\ frames[i].pc = "stage2"
    /\ \A b \in Branches : frames[i].call[b] \in {"ok", "failed"}
    /\ LET f == frames[i]
           g == [b \in Branches |->
                    IF f.call[b] = "failed" THEN get_fallback(SchemaName(b)).value
                    ELSE f.gathered[b]]
       IN  frames' = [frames EXCEPT ![i] =
              IF _requires_deep_dive(f.classification[1], g["compliance"][1])
              THEN [f EXCEPT !.gathered = g, !.pc = "stage3", !.call["deep_dive"] = "tpl"]
              ELSE [f EXCEPT !.gathered = g, !.pc = "returned",
                             !.returned = Some(EvaluationResult(
                                 f.classification[1], g["script"][1], g["compliance"][1],
                                 g["communication"][1], None))]]
    /\ UNCHANGED <<orchestrator, ext>>
    /\ UNCHANGED pipelineVars
    /\ UNCHANGED gateVars
    /\ UNCHANGED scoreVars
    /\ UNCHANGED apiVars
    /\ UNCHANGED retryVars
    /\ UNCHANGED cacheVars
    /\ UNCHANGED deepDiveVars

NextPair ==
    \/ \E i \in Invocations : evaluate_call_enter(i)
    \/ \E i \in Invocations, s \in Stages : evaluate_call_settle(i, s)
    \/ \E i \in Invocations : evaluate_call_join(i)

SpecPair == InitPair /\ [][NextPair]_vars

\* What an invocation returns or raises when it runs alone, from what its
\* own external calls do.
Alone(e) ==
    IF e["classification"].at # "ok"
    THEN [returned |-> None, raised |-> Some(e["classification"].at)]
    ELSE LET c == e["classification"].value[1]
             g == [b \in Branches |->
                     IF e[b].at = "ok" THEN e[b].value[1]
                     ELSE CASE b = "script" -> _script_adherence_fallback
                            [] b = "compliance" -> _compliance_fallback
                            [] b = "communication" -> _communication_fallback]
             fires == \/ Len(g["compliance"].summary.violations) > 0
                      \/ c.requires_deep_dive
                      \/ _calculate_deep_dive_score(c, g["compliance"]) >= 3
         IN  [returned |-> Some(EvaluationResult(c, g["script"], g["compliance"],
                                 g["communication"],
                                 IF fires THEN e["deep_dive"].value ELSE None)),
              raised |-> None]

Finished(i) == frames[i].pc \in {"returned", "raised"}

\* C25: two evaluate_call invocations for different requests that run
\* concurrently on one orchestrator are independent under every
\* interleaving: what each returns or raises is what it returns or raises
\* alone, given its own request and its own external calls; a step of one
\* invocation leaves the locals of the other untouched; and the only
\* attribute of the orchestrator a step writes is `initialized`.
C25_InvocationsIndependent ==
    /\ [](\A i \in Invocations :
            /\ frames[i].request.call_id = CallIdOf(i)
            /\ Finished(i) =>
                 /\ frames[i].returned = Alone(ext[i]).returned
                 /\ frames[i].raised = Alone(ext[i]).raised
            /\ ~Finished(i) => frames[i].returned = None /\ frames[i].raised = None)
    /\ [][/\ orchestrator' = [orchestrator EXCEPT !.initialized = orchestrator'.initialized]
          /\ ext' = ext
          /\ \E i \in Invocations :
                \A j \in Invocations \ {i} : frames'[j] = frames[j]]_vars

\* Both invocations have finished, one by returning a result with a deep
\* dive and one by raising, after running interleaved.
C25_Witness ==
    /\ Finished(1) /\ Finished(2)
    /\ frames[1].returned # None /\ frames[1].returned[1].deep_dive # None
    /\ frames[2].raised # None
    /\ ext[1] # ext[2]

\* Both invocations are in Stage 2 at once, under different classifications.
C25_WitnessInterleaved ==
    /\ frames[1].pc = "stage2" /\ frames[2].pc = "stage2"
    /\ frames[1].classification # frames[2].classification
    /\ frames[1].call["script"] = "llm" /\ frames[2].call["compliance"] = "tpl"

\* ---------------------------------------------------------------------
\* Termination of evaluate_call
\* ---------------------------------------------------------------------

\* How far a stage coroutine has come.
Progress(st) ==
    CASE st = "idle" -> 0
      [] st = "scheduled" -> 1
      [] st = "tpl" -> 2
      [] st = "llm" -> 3
      [] st \in Settled -> 4

StageStatus(s) ==
    IF s = "classification" THEN stage1
    ELSE IF s = "deep_dive" THEN dd
    ELSE status[s]

\* How far evaluate_call has come.
WorkflowProgress ==
    CASE pc = "idle" -> 0
      [] pc = "stage1" -> 1
      [] pc = "stage2" -> 2
      [] pc = "stage3" -> 3
      [] pc \in {"returned", "raised"} -> 4

\* C26: given that every single external call eventually returns or fails,
\* every evaluate_call eventually finishes, by returning an EvaluationResult
\* or by raising; on the way it starts at most 5 stage coroutines, each stage
\* makes at most 3 attempts at its template request and then at most 3
\* attempts at its completion, and neither the workflow nor a stage ever
\* goes back to an earlier position.
C26_EvaluateCallTerminates ==
    /\ <>(pc \in {"returned", "raised"})
    /\ [](/\ pc = "returned" => result # None
          /\ pc = "raised" => error # None
          /\ TotalCalls <= 5
          /\ \A s \in Stages :
                /\ started[s] <= 1
                /\ call_attempt[s] \in 0..3
                /\ call_attempt[s] > 0 <=> StageStatus(s) \in {"tpl", "llm"})
    /\ [][/\ WorkflowProgress' >= WorkflowProgress
          /\ \A s \in Stages :
                \/ Progress(StageStatus(s)') > Progress(StageStatus(s))
                \/ /\ StageStatus(s)' = StageStatus(s)
                   /\ call_attempt'[s] >= call_attempt[s]]_vars

\* The deep dive, fifth stage to start, is at the third attempt of its
\* completion.
C26_Witness ==
    /\ pc = "stage3"
    /\ dd = "llm"
    /\ call_attempt["deep_dive"] = 3
    /\ TotalCalls = 5

\* evaluate_call has returned after all five stages ran.
C26_WitnessReturned ==
    /\ pc = "returned"
    /\ TotalCalls = 5
    /\ deep_dive # None

\* ---------------------------------------------------------------------
\* The fallback table
\* ---------------------------------------------------------------------

\* The fields of each shape.
ShapeFields(schema_name) ==
    CASE schema_name = "CallClassification" ->
            {"call_outcome", "script_adherence_preview", "red_flags",
             "requires_deep_dive", "early_termination_justified"}
      [] schema_name = "Compliance" -> {"items", "summary"}
      [] schema_name = "Communication" -> {"skills", "summary"}
      [] schema_name = "ScriptAdherence" -> {"sections"}

\* v is a value of the named shape.
HasShape(schema_name, v) ==
    /\ DOMAIN v = ShapeFields(schema_name)
    /\ schema_name = "Compliance" => DOMAIN v.summary = {"coaching_needed", "violations"}
    /\ schema_name = "Communication" => DOMAIN v.summary = {"exceeded", "missed"}

TableNames == {"CallClassification", "Compliance", "Communication", "ScriptAdherence"}

\* Names that are no key of the table: another schema, a field name, a
\* misspelling, the empty name.
OtherNames == {"DeepDive", "ScriptDeviation", "InvalidSchema", "compliance", ""}

\* C29: get_fallback returns, for each of the four names CallClassification,
\* Compliance, Communication and ScriptAdherence, a value of exactly that
\* shape, and for any other name it raises ValueError and returns no value;
\* the three names evaluate_call passes are in the table, so substituting a
\* fallback never fails.
C29_FallbackTable ==
    /\ \A n \in TableNames :
          /\ ~get_fallback(n).raised
          /\ get_fallback(n).value # None
          /\ HasShape(n, get_fallback(n).value[1])
          /\ \A o \in TableNames \ {n} : ~HasShape(o, get_fallback(n).value[1])
    /\ \A n \in OtherNames :
          /\ get_fallback(n).raised
          /\ get_fallback(n).value = None
    /\ \A b \in Branches : SchemaName(b) \in TableNames
    /\ pc = "raised" => (stage1 \in Failed /\ error # None /\ error[1].type # "ValueError")
    /\ (pc = "stage2" /\ GatherReady) => ENABLED Join
    /\ Joined =>
          \A b \in Branches :
             status[b] \in Failed =>
                /\ facet[b] = get_fallback(SchemaName(b)).value
                /\ HasShape(SchemaName(b), facet[b][1])

\* Script adherence and communication raised and their fallbacks were
\* substituted at the join.
C29_Witness ==
    /\ Joined
    /\ status["script"] \in Failed
    /\ status["communication"] \in Failed
    /\ status["compliance"] = "ok"
    /\ facet["script"] = Some(_script_adherence_fallback)
    /\ facet["communication"] = Some(_communication_fallback)

\* ---------------------------------------------------------------------
\* Order of the score adjustments
\* ---------------------------------------------------------------------

\* The six adjustments of calculate_overall_score, in the order of the code.
Adjustments ==
    <<0 - 15 * v_count, 0 - 5 * c_count, 0 - 3 * m_count, 2 * e_count,
      0 - 10 * k_count, 0 - D_sum>>

\* Every order in which the six adjustments can be applied.
Orders == Permutations(1..6)

\* The sum the adjustments `adj` give when they are applied to 100 one after
\* the other in the order p, with no clamping on the way.
ScoreInOrder(adj, p) ==
    (((((100 + adj[p[1]]) + adj[p[2]]) + adj[p[3]]) + adj[p[4]]) + adj[p[5]]) + adj[p[6]]

\* C30: the overall score does not depend on the order in which penalties
\* and bonuses are applied: the value is clamped once, on the final sum, and
\* never on an intermediate value, so every permutation of the adjustments
\* gives the same score and a bonus is not lost to an intermediate cap (one
\* violation and one exceeded skill give 87, not 85).
C30_OrderIndependent ==
    Scored =>
        /\ LET adj == Adjustments
               sum == ScoreInOrder(adj, [i \in 1..6 |-> i])
           IN  /\ \A p \in Orders : ScoreInOrder(adj, p) = sum
               /\ final_score[1] = Clamp(sum, 1, 100)
        /\ (v_count = 1 /\ e_count = 1 /\ c_count = 0 /\ m_count = 0
              /\ k_count = 0 /\ D_sum = 0) => final_score[1] = 87

\* One violation and one exceeded skill: 87, while the running score passes
\* 100 when the bonus is taken first.
C30_Witness ==
    /\ Scored
    /\ v_count = 1 /\ e_count = 1 /\ c_count = 0 /\ m_count = 0
    /\ k_count = 0 /\ D_sum = 0
    /\ final_score[1] = 87
    /\ 100 + Adjustments[4] > 100

\* The running score is below 1 after the deductions that come first in the
\* code, and a bonus follows.
C30_WitnessBelow ==
    /\ Scored
    /\ e_count > 0
    /\ 100 + Adjustments[1] + Adjustments[2] + Adjustments[3] < 1
    /\ final_score[1] = Clamp(ClaimedRaw, 1, 100)

\* ---------------------------------------------------------------------
\* The template cache: fetch_prompt_template, clear_cache
\* ---------------------------------------------------------------------

\* PromptLayerClient(cache_ttl_minutes=60), as the orchestrator builds it.
cache_ttl_minutes == 60

\* Time is counted in minutes; the clock moves in steps of a third of the
\* TTL, so an entry is seen at ages 0, 20, 40 (fresh) and 60 (expired).
ClockStep == cache_ttl_minutes \div 3
MaxClock == 60

\* How many transient failures may precede the upstream's final answer.
MaxTransient == 2

FetchNames == {"test_template"}
FetchVersions == {None, Some(0), Some(2)}

\* Bodies of a 200 response: two revisions of a valid template and one
\* without its id.
TemplateData ==
    {[prompt_template |-> "Evaluate {transcript}", id |-> 1, prompt_name |-> "test_template"],
     [prompt_template |-> "Evaluate the call {transcript}", id |-> 2, prompt_name |-> "test_template"],
     [prompt_template |-> "Evaluate {transcript}", prompt_name |-> "test_template"]}

\* What one `await self.client.post(endpoint, json=payload)` may do.
TransientOutcomes ==
    {[kind |-> "raise", exc |-> RequestError("Connection timeout")],
     [kind |-> "response", status_code |-> 500, json |-> Some([error |-> "Server error"])]}

FetchOutcomes ==
    TransientOutcomes
    \cup {[kind |-> "response", status_code |-> 404, json |-> None]}
    \cup {[kind |-> "response", status_code |-> 200, json |-> Some(t)] : t \in TemplateData}

\* What the upstream does on the successive requests of one call: some
\* transient failures, then one more outcome.
UpstreamScripts ==
    {pre \o <<last>> : pre \in SeqUpTo(TransientOutcomes, MaxTransient),
                       last \in FetchOutcomes}

\* cache_key = f"{prompt_name}:v{version}" if version else prompt_name
CacheKey(prompt_name, version) ==
    IF version # None /\ version[1] # 0
    THEN prompt_name \o ":v" \o ToString(version[1])
    ELSE prompt_name

\* Variant: an entry is valid up to and including the TTL.
_is_cache_valid_inclusive(template_name) ==
    /\ template_name \in DOMAIN cache_timestamps
    /\ utcnow - cache_timestamps[template_name] <= cache_ttl_minutes

_is_cache_valid(template_name) ==
    /\ template_name \in DOMAIN cache_timestamps
    /\ utcnow - cache_timestamps[template_name] < cache_ttl_minutes

\* dict[key] = value
SetItem(dict, key, value) ==
    [k \in DOMAIN dict \cup {key} |-> IF k = key THEN value ELSE dict[k]]

\* _validate_template_data on a string template: the first failed test, or
\* None.
_validate_template_data(template_data, template_name) ==
    LET fields == <<"prompt_template", "id", "prompt_name">>
        missing == {i \in DOMAIN fields : fields[i] \notin DOMAIN template_data}
    IN  IF missing # {}
        THEN Some("Template '" \o template_name \o "' missing required field: " \o
                    fields[CHOOSE i \in missing : \A j \in missing : i <= j])
        ELSE IF template_data.prompt_template = ""
        THEN Some("Template '" \o template_name \o "' has empty prompt text")
        ELSE None

\* The try block of fetch_prompt_template on what its POST did.
fetch_prompt_template_body(prompt_name, post) ==
    IF post.kind = "raise"
    THEN Raised(PromptLayerAPIError(0, "Network error: " \o Str(post.exc)))
    ELSE IF post.status_code = 404
    THEN Raised(PromptLayerAPIError(404, "Template '" \o prompt_name \o "' not found"))
    ELSE IF post.status_code \notin 200..299
    THEN Raised(PromptLayerAPIError(post.status_code,
                    "Failed to fetch template: " \o
                        (IF post.json # None /\ "error" \in DOMAIN post.json[1]
                         THEN post.json[1].error ELSE "Unknown error")))
    ELSE LET invalid == _validate_template_data(post.json[1], prompt_name)
         IN  IF invalid # None
             THEN Raised(PromptLayerError("Unexpected error: " \o invalid[1]))
             ELSE Returned(post.json[1])

InitCache ==
    /\ templates_cache = <<>>
    /\ cache_timestamps = <<>>
    /\ utcnow = 0
    /\ fetching = None
    /\ fetched = None
    /\ IdlePipeline
    /\ NoGateCall
    /\ NoScoreCall
    /\ NoApiCall
    /\ NoRetryCall
    /\ NoPairCall
    /\ NoDeepDiveCall

OtherThanCache ==
    UNCHANGED <<pipelineVars, gateVars, scoreVars, apiVars, retryVars, pairVars,
                deepDiveVars>>

\* The clock moves on.
Tick ==
    /\ utcnow + ClockStep <= MaxClock
    /\ utcnow' = utcnow + ClockStep
    /\ UNCHANGED <<templates_cache, cache_timestamps, fetching, fetched>>
    /\ OtherThanCache

\* fetch_prompt_template up to its await: a valid entry is returned at once,
\* otherwise the request is sent.
fetch_prompt_template_begin(prompt_name, version) ==
    /\ fetching = None
    /\ LET cache_key == CacheKey(prompt_name, version)
       IN  IF _is_cache_valid(cache_key)
           THEN /\ fetched' = Some([prompt_name |-> prompt_name, version |-> version,
                                    cache_key |-> cache_key, upstream |-> <<>>,
                                    requests |-> 0,
                                    outcome |-> Returned(templates_cache[cache_key])])
                /\ UNCHANGED fetching
           ELSE /\ fetching' = Some([prompt_name |-> prompt_name, version |-> version,
                                     cache_key |-> cache_key])
                /\ UNCHANGED fetched
    /\ UNCHANGED <<templates_cache, cache_timestamps, utcnow>>
    /\ OtherThanCache

\* fetch_prompt_template from its await on: the one POST it sends gets the
\* upstream's first outcome; a valid template is cached with the time of
\* that moment and returned, anything else is raised.
fetch_prompt_template_complete(upstream) ==
    /\ fetching # None
    /\ LET f == fetching[1]
           outcome == fetch_prompt_template_body(f.prompt_name, upstream[1])
       IN  /\ fetched' = Some([prompt_name |-> f.prompt_name, version |-> f.version,
                                cache_key |-> f.cache_key, upstream |-> upstream,
                                requests |-> 1, outcome |-> outcome])
           /\ IF outcome.raised
              THEN UNCHANGED <<templates_cache, cache_timestamps>>
              ELSE /\ templates_cache' = SetItem(templates_cache, f.cache_key, outcome.value)
                   /\ cache_timestamps' = SetItem(cache_timestamps, f.cache_key, utcnow)
    /\ fetching' = None
    /\ UNCHANGED utcnow
    /\ OtherThanCache

\* clear_cache(template_name): the name's own entry and its versions, or
\* with no name every entry.
clear_cache(template_name) ==
    /\ DOMAIN templates_cache # {}
    /\ LET removed == IF template_name = None THEN DOMAIN templates_cache
                      ELSE {k \in DOMAIN templates_cache :
                                k \in {CacheKey(template_name[1], v) : v \in FetchVersions}}
           kept == DOMAIN templates_cache \ removed
       IN  /\ templates_cache' = [k \in kept |-> templates_cache[k]]
           /\ cache_timestamps' = [k \in DOMAIN cache_timestamps \ removed |->
                                        cache_timestamps[k]]
    /\ UNCHANGED <<utcnow, fetching, fetched>>
    /\ OtherThanCache

NextCache ==
    \/ Tick
    \/ \E n \in FetchNames, v \in FetchVersions : fetch_prompt_template_begin(n, v)
    \/ \E u \in UpstreamScripts : fetch_prompt_template_complete(u)
    \/ \E t \in {None} \cup {Some(n) : n \in FetchNames} : clear_cache(t)

SpecCache == InitCache /\ [][NextCache]_vars

\* An entry for `key` exists in the given cache and is younger than the TTL
\* at time `now`.
FreshEntry(timestamps, now, key) ==
    /\ key \in DOMAIN timestamps
    /\ now - timestamps[key] < cache_ttl_minutes

\* A call of fetch_prompt_template reaches its cache test in this step.
FetchBegins == fetching = None /\ (fetching' # None \/ fetched' # fetched)

\* The call in flight gets its answer in this step.
FetchCompletes == fetching # None /\ fetching' = None

\* C31: fetch_prompt_template serves a template from the cache, with no
\* upstream request, exactly when an entry for its cache key exists and is
\* younger than the TTL; otherwise it sends one request, and when that
\* succeeds the template is stored with the current time, so that a fetch of
\* the same key right after it is a cache hit.
C31_CacheHitIffFresh ==
    /\ [][FetchBegins =>
            IF fetching' = None
            THEN LET f == fetched'[1]
                 IN  /\ FreshEntry(cache_timestamps, utcnow, f.cache_key)
                     /\ f.requests = 0
                     /\ f.outcome = Returned(templates_cache[f.cache_key])
            ELSE ~FreshEntry(cache_timestamps, utcnow, fetching'[1].cache_key)]_vars
    /\ [][FetchCompletes =>
            LET f == fetched'[1]
            IN  /\ f.cache_key = fetching[1].cache_key
                /\ f.requests = 1
                /\ ~f.outcome.raised =>
                      /\ f.cache_key \in DOMAIN templates_cache'
                      /\ templates_cache'[f.cache_key] = f.outcome.value
                      /\ cache_timestamps'[f.cache_key] = utcnow'
                      /\ FreshEntry(cache_timestamps', utcnow', f.cache_key)]_vars

\* A call has been served from an entry that is 40 minutes old.
C31_Witness ==
    /\ fetched # None
    /\ fetched[1].requests = 0
    /\ fetched[1].cache_key \in DOMAIN cache_timestamps
    /\ utcnow - cache_timestamps[fetched[1].cache_key] = 2 * ClockStep

\* A call has been served from the entry stored at that very time.
C31_WitnessImmediate ==
    /\ fetched # None
    /\ fetched[1].requests = 0
    /\ fetched[1].cache_key \in DOMAIN cache_timestamps
    /\ cache_timestamps[fetched[1].cache_key] = utcnow
    /\ utcnow > 0

\* A call found its entry expired, went upstream and stored the new revision.
C31_WitnessExpired ==
    /\ fetched # None
    /\ fetched[1].requests = 1
    /\ ~fetched[1].outcome.raised
    /\ fetched[1].outcome.value.id = 2
    /\ utcnow >= cache_ttl_minutes
    /\ fetched[1].cache_key \in DOMAIN cache_timestamps
    /\ cache_timestamps[fetched[1].cache_key] = utcnow

\* A call went upstream although another key of the same template was fresh.
C31_WitnessOtherKey ==
    /\ fetched # None
    /\ fetched[1].requests = 1
    /\ \E k \in DOMAIN cache_timestamps :
          /\ k # fetched[1].cache_key
          /\ FreshEntry(cache_timestamps, utcnow, k)
          /\ cache_timestamps[k] < utcnow

\* The upstream failed the first two requests of a call transiently and
\* would have answered the third with a valid template.
TwoTransientThenSuccess(upstream) ==
    /\ Len(upstream) = 3
    /\ upstream[1] \in TransientOutcomes
    /\ upstream[2] \in TransientOutcomes
    /\ upstream[3].kind = "response"
    /\ upstream[3].status_code = 200
    /\ _validate_template_data(upstream[3].json[1], "test_template") = None

\* C32: when the first two upstream attempts of fetch_prompt_template fail
\* with a network error or a server error and the third succeeds, the call
\* returns the fetched template and has cached it.
C32_TransientFailuresRetried ==
    (fetched # None /\ TwoTransientThenSuccess(fetched[1].upstream)) =>
        LET f == fetched[1]
        IN  /\ f.outcome = Returned(f.upstream[3].json[1])
            /\ f.cache_key \in DOMAIN templates_cache
            /\ templates_cache[f.cache_key] = f.upstream[3].json[1]

\* A call whose upstream failed twice and then would have succeeded ended.
C32_Reached ==
    /\ fetched # None
    /\ TwoTransientThenSuccess(fetched[1].upstream)
    /\ fetched[1].upstream[1].kind = "raise"
    /\ fetched[1].upstream[2].kind = "response"

\* ---------------------------------------------------------------------
\* Admission of a batch
\* ---------------------------------------------------------------------

Admissible ==
    1 <= Len(calls) /\ Len(calls) <= settings.max_concurrent_evaluations

\* Nothing of the batch has been evaluated or stored.
Untouched ==
    \A i \in DOMAIN calls :
        /\ task[i] = "new"
        /\ invoked[i] = <<>>
        /\ results[i] = None

Rejected(code) ==
    /\ response # None
    /\ response[1].status_code = 400
    /\ response[1].detail.error = code

\* C33: evaluate_batch admits a batch only when it holds at least one and at
\* most max_concurrent_evaluations requests.  An empty batch is answered 400
\* EMPTY_BATCH and an oversized one 400 BATCH_SIZE_EXCEEDED, and no request
\* of a rejected batch is evaluated or stored.
C33_BatchAdmission ==
    endpoint = "evaluate-batch" =>
        /\ ~Admissible => Untouched
        /\ (response # None /\ Len(calls) = 0) => Rejected("EMPTY_BATCH")
        /\ (response # None /\ Len(calls) > settings.max_concurrent_evaluations)
              => Rejected("BATCH_SIZE_EXCEEDED")
        /\ (response # None /\ Admissible) => response[1].status_code = 200

\* A batch of more requests than the configured maximum has been rejected.
C33_Witness ==
    /\ endpoint = "evaluate-batch"
    /\ Len(calls) = settings.max_concurrent_evaluations + 1
    /\ Rejected("BATCH_SIZE_EXCEEDED")
    /\ \E i \in DOMAIN calls : ~TooShort(calls[i])

\* An empty batch has been rejected.
C33_WitnessEmpty ==
    /\ endpoint = "evaluate-batch"
    /\ Len(calls) = 0
    /\ Rejected("EMPTY_BATCH")

\* A batch of exactly the configured maximum has been answered.
C33_WitnessFull ==
    /\ endpoint = "evaluate-batch"
    /\ Len(calls) = settings.max_concurrent_evaluations
    /\ Len(calls) > 1
    /\ response # None
    /\ response[1].status_code = 200

\* ---------------------------------------------------------------------
\* A failed compliance branch and the deep dive
\* ---------------------------------------------------------------------

ComplianceFailed == status["compliance"] \in Failed

\* C34: whenever the compliance branch of Stage 2 has failed, the deep dive
\* is attempted: the compliance stand-in lists a violation, so the gate fires
\* on it whatever the classification is, and the value the gate was tested
\* on, the value written into the deep-dive variables and the compliance
\* facet of the returned result are that one stand-in.
C34_ComplianceFailureForcesDeepDive ==
    /\ \A c \in LLMClassifications : _requires_deep_dive(c, _compliance_fallback)
    /\ (ComplianceFailed /\ pc \notin {"idle", "stage1", "stage2"}) =>
          /\ pc \in {"stage3", "returned"}
          /\ Len(_compliance_fallback.summary.violations) > 0
          /\ facet["compliance"] = Some(_compliance_fallback)
          /\ gate = "fired"
          /\ started["deep_dive"] = 1
          /\ variables # None
          /\ variables[1].evaluation_results.compliance = _compliance_fallback
          /\ pc = "returned" =>
                /\ result # None
                /\ result[1].compliance = _compliance_fallback

\* A call whose classification raises no issue at all was returned with its
\* deep dive made, after the compliance branch failed.
C34_Witness ==
    /\ pc = "returned"
    /\ ComplianceFailed
    /\ status["script"] = "ok"
    /\ status["communication"] = "ok"
    /\ classification[1].call_outcome = "completed"
    /\ ~classification[1].requires_deep_dive
    /\ Len(classification[1].red_flags) = 0
    /\ Len(classification[1].script_adherence_preview) = 0
    /\ result[1].deep_dive # None

\* The same, with the deep dive itself failed: it was attempted all the same.
C34_WitnessDeepDiveFailed ==
    /\ pc = "returned"
    /\ ComplianceFailed
    /\ ~classification[1].requires_deep_dive
    /\ Len(classification[1].red_flags) = 0
    /\ result[1].deep_dive = None
    /\ started["deep_dive"] = 1

\* ---------------------------------------------------------------------
\* Range and monotonicity of the deep-dive score
\* ---------------------------------------------------------------------

NoIssueCounted ==
    /\ Len(gate_classification[1].red_flags) = 0
    /\ Len(gate_compliance[1].summary.coaching_needed) = 0
    /\ script_issues(gate_classification[1]) = 0
    /\ gate_classification[1].call_outcome \in {"completed", "scheduled"}

\* C35: for every classification and compliance pair the value of
\* _calculate_deep_dive_score is an integer from 0 to 10 (3 + 2 + 2 + 2 + 1
\* at most), and it is 0 when there is no red flag, no coaching item, no
\* low-adherence section and the outcome is completed or scheduled.
C35_SeverityScoreRange ==
    severity_score # None =>
        /\ severity_score[1] \in Int
        /\ 0 <= severity_score[1]
        /\ severity_score[1] <= 3 + 2 + 2 + 2 + 1
        /\ NoIssueCounted => severity_score[1] = 0

\* Every part of the score is at its cap and the score is 10.
C35_Witness ==
    /\ severity_score = Some(10)
    /\ Len(gate_classification[1].red_flags) > 3
    /\ Len(gate_compliance[1].summary.coaching_needed) > 4
    /\ script_issues(gate_classification[1]) > 2

\* A completed call with high adherence everywhere and a violation scored 0.
C35_WitnessZero ==
    /\ severity_score = Some(0)
    /\ NoIssueCounted
    /\ Len(gate_classification[1].script_adherence_preview) > 0
    /\ Len(gate_compliance[1].summary.violations) > 0

\* The inputs that differ from the pair (c, comp) by one more red flag, one
\* more coaching-needed item, one more violation or one more low-adherence
\* section; outcome and flags are those of c.
OneMoreIssue(c, comp) ==
    {<<[c EXCEPT !.red_flags = Append(@, "Flag 9")], comp>>,
     <<[c EXCEPT !.script_adherence_preview = Append(@, "low")], comp>>,
     <<c, [comp EXCEPT !.summary.coaching_needed = Append(@, "Tone")]>>,
     <<c, [comp EXCEPT !.summary.violations = Append(@, "FDCPA violation")]>>}

\* C36: the gate is monotone in the issue counts.  With call outcome,
\* early-termination flag and requires_deep_dive unchanged, one more red
\* flag, coaching-needed item, compliance violation or low-adherence section
\* on an input on which _requires_deep_dive is true leaves it true.
C36_GateMonotone ==
    gate_result = Some(TRUE) =>
        \A q \in OneMoreIssue(gate_classification[1], gate_compliance[1]) :
            /\ q[1].call_outcome = gate_classification[1].call_outcome
            /\ _requires_deep_dive(q[1], q[2])

\* The gate fired on the threshold alone, by a score of exactly 3 that holds
\* a half point cut off.
C36_Witness ==
    /\ gate_result = Some(TRUE)
    /\ ~gate_classification[1].requires_deep_dive
    /\ Len(gate_compliance[1].summary.violations) = 0
    /\ HalfPoints(gate_classification[1], gate_compliance[1]) = 2 * threshold + 1

\* The gate fired with every capped part at its cap.
C36_WitnessCapped ==
    /\ gate_result = Some(TRUE)
    /\ ~gate_classification[1].requires_deep_dive
    /\ Len(gate_compliance[1].summary.violations) = 0
    /\ Len(gate_classification[1].red_flags) = 3
    /\ script_issues(gate_classification[1]) = 2
    /\ Len(gate_compliance[1].summary.coaching_needed) = 4

\* ---------------------------------------------------------------------
\* When the store is invoked
\* ---------------------------------------------------------------------

\* The positions of `service` in the log of request i.
CallsOf(i, service) == {k \in DOMAIN invoked[i] : invoked[i][k] = service}

\* C37: in both endpoints store_evaluation_result is invoked for a request
\* only after that request's evaluate_call has returned and its score and
\* summary have been computed, at most once per request, and never for a
\* request skipped for short talk time or whose evaluation failed.
C37_StoreAfterEvaluation ==
    \A i \in DOMAIN calls :
        /\ Cardinality(CallsOf(i, "store_evaluation_result")) <= 1
        /\ \A k \in CallsOf(i, "store_evaluation_result") :
              /\ \A service \in {"evaluate_call", "calculate_overall_score",
                                 "generate_summary"} :
                    \E j \in CallsOf(i, service) : j < k
              /\ ~env[i].raises
              /\ env[i].value # None
              /\ ~ClaimedShort(calls[i])
              /\ task[i] \in {"storing", "done"}

\* In a batch the store of one request is awaited while the evaluation of
\* another one is still running.
C37_Witness ==
    /\ endpoint = "evaluate-batch"
    /\ \E i, j \in DOMAIN calls :
          /\ task[i] = "storing"
          /\ CallsOf(i, "store_evaluation_result") # {}
          /\ task[j] = "evaluating"
          /\ CallsOf(j, "store_evaluation_result") = {}

\* /evaluate-call has answered a request it evaluated and stored.
C37_WitnessSingle ==
    /\ endpoint = "evaluate-call"
    /\ response # None
    /\ CallsOf(1, "store_evaluation_result") = {4}

\* A batch was answered with one request failed, one skipped and neither
\* stored.
C37_WitnessNotStored ==
    /\ endpoint = "evaluate-batch"
    /\ response # None
    /\ \E i, j \in DOMAIN calls :
          /\ env[i].raises /\ ~ClaimedShort(calls[i])
          /\ ClaimedShort(calls[j])
          /\ CallsOf(i, "store_evaluation_result") = {}
          /\ CallsOf(j, "store_evaluation_result") = {}

\* ---------------------------------------------------------------------
\* Order of the batch response
\* ---------------------------------------------------------------------

BatchAnswered ==
    /\ endpoint = "evaluate-batch"
    /\ response # None
    /\ response[1].status_code = 200

\* C38: the batch response lists exactly one entry per submitted request and
\* entry i belongs to request i (results[i].call_id = calls[i].call_id),
\* in whatever order the concurrent evaluations return and whichever fail.
C38_BatchResponseInRequestOrder ==
    BatchAnswered =>
        LET entries == response[1].body.results
        IN  /\ Len(entries) = Len(calls)
            /\ \A i \in DOMAIN calls : entries[i].call_id = calls[i].call_id

\* A batch was answered whose second request returned before its first one,
\* the first one failed.
C38_Witness ==
    /\ BatchAnswered
    /\ Len(calls) > 1
    /\ calls[1].call_id # calls[2].call_id
    /\ finished[1] = 2
    /\ finished[2] = 1
    /\ ~response[1].body.results[1].success
    /\ response[1].body.results[2].success

\* A batch was answered whose requests returned in request order.
C38_WitnessInOrder ==
    /\ BatchAnswered
    /\ Len(calls) > 1
    /\ \A k \in DOMAIN finished : finished[k] = k
    /\ \A i \in DOMAIN calls : response[1].body.results[i].success

====
